---- MODULE Spec2Model ----
(***************************************************************************)
(* Listing ingestion pipeline of scraper-plus-plus: the job processor      *)
(* sweep, the retrying scrape orchestrator and the Google Sheets           *)
(* synchronizer.                                                           *)
(*                                                                         *)
(* Specifications:                                                         *)
(*   SpecSync  repeated appendToSpreadsheet calls by one writer against    *)
(*             one destination, with arbitrary batches;                    *)
(*   Spec      one sweep of the job processor over the active jobs, each   *)
(*             job running runScraper (retry loop, then sync);             *)
(*   SpecStoreFaults  the same sweep against a job store whose updates     *)
(*             can fail.                                                   *)
(*   SpecCli   the command line program of index.js;                       *)
(*   SpecRace  two processes appending to one destination;                 *)
(*   SpecExtract  extractListings on one page, then the append of its      *)
(*             listings;                                                   *)
(*   SpecOneJob  the sweep over a table with one active job whose pages    *)
(*             can be challenge pages;                                     *)
(*   SpecEither  a run of either program: the sweep over one job, or the   *)
(*             command line;                                               *)
(*   SpecScroll, SpecScrollFair  the timer loop of autoScroll on a page    *)
(*             that can grow, without and with fairness of the tick.       *)
(***************************************************************************)
EXTENDS Integers, Sequences, FiniteSets, TLC

(***************************************************************************)
(* Bounds of the model.                                                    *)
(***************************************************************************)
MaxIds == 2        \* distinct listing ids a page can show
MaxBatch == 2      \* listings in one batch handed to the synchronizer
MaxRuns == 3       \* synchronizer runs in SpecSync
NumJobs == 2       \* rows of the jobs table

(***************************************************************************)
(* JavaScript values.  A value is a tagged tuple, so that null, '' and a   *)
(* non-empty string stay distinct and can be compared with each other.     *)
(***************************************************************************)
Null == <<"null">>
Str(s) == <<"str", s>>
Bool(b) == <<"bool", b>>

\* JS truthiness: null, '', false, 0 and NaN are falsy.
Truthy(v) == v # Null /\ v # Str("") /\ v # Bool(FALSE) /\ v # <<"num", 0, 1>> /\ v # <<"nan">>

\* JS  a || b
OrElse(a, b) == IF Truthy(a) THEN a ELSE b

(***************************************************************************)
(* Text.  A string is a TLA+ string; Spelling gives the characters of      *)
(* every string the model handles, so that replace, match and the parse    *)
(* functions work on characters as the JavaScript functions do.            *)
(***************************************************************************)
Spelling ==
  ("101" :> << "1","0","1" >>) @@
  ("102" :> << "1","0","2" >>) @@
  ("103" :> << "1","0","3" >>) @@
  ("104" :> << "1","0","4" >>) @@
  ("https://www.redfin.com/MA/Barnstable/1-Main-St/home/101" :>
    << "h","t","t","p","s",":","/","/","w","w","w",".","r","e","d","f","i",
       "n",".","c","o","m","/","M","A","/","B","a","r","n","s","t","a","b",
       "l","e","/","1","-","M","a","i","n","-","S","t","/","h","o","m","e",
       "/","1","0","1" >>) @@
  ("https://www.redfin.com/MA/Barnstable/2-Main-St/home/102" :>
    << "h","t","t","p","s",":","/","/","w","w","w",".","r","e","d","f","i",
       "n",".","c","o","m","/","M","A","/","B","a","r","n","s","t","a","b",
       "l","e","/","2","-","M","a","i","n","-","S","t","/","h","o","m","e",
       "/","1","0","2" >>) @@
  ("https://www.redfin.com/MA/Barnstable/3-Main-St/home/103" :>
    << "h","t","t","p","s",":","/","/","w","w","w",".","r","e","d","f","i",
       "n",".","c","o","m","/","M","A","/","B","a","r","n","s","t","a","b",
       "l","e","/","3","-","M","a","i","n","-","S","t","/","h","o","m","e",
       "/","1","0","3" >>) @@
  ("https://www.redfin.com/MA/Barnstable/4-Main-St/home/104" :>
    << "h","t","t","p","s",":","/","/","w","w","w",".","r","e","d","f","i",
       "n",".","c","o","m","/","M","A","/","B","a","r","n","s","t","a","b",
       "l","e","/","4","-","M","a","i","n","-","S","t","/","h","o","m","e",
       "/","1","0","4" >>) @@
  ("https://www.redfin.com/MA/Barnstable" :>
    << "h","t","t","p","s",":","/","/","w","w","w",".","r","e","d","f","i",
       "n",".","c","o","m","/","M","A","/","B","a","r","n","s","t","a","b",
       "l","e" >>) @@
  ("https://www.redfin.com/home/tour" :>
    << "h","t","t","p","s",":","/","/","w","w","w",".","r","e","d","f","i",
       "n",".","c","o","m","/","h","o","m","e","/","t","o","u","r" >>) @@
  ("" :> <<  >>) @@
  ("3 beds" :> << "3"," ","b","e","d","s" >>) @@
  ("0 beds" :> << "0"," ","b","e","d","s" >>) @@
  ("-- beds" :> << "-","-"," ","b","e","d","s" >>) @@
  ("n.a." :> << "n",".","a","." >>) @@
  ("2 baths" :> << "2"," ","b","a","t","h","s" >>) @@
  ("2.5 baths" :> << "2",".","5"," ","b","a","t","h","s" >>) @@
  ("0 baths" :> << "0"," ","b","a","t","h","s" >>) @@
  ("-- baths" :> << "-","-"," ","b","a","t","h","s" >>) @@
  ("2,000 sq ft" :> << "2",",","0","0","0"," ","s","q"," ","f","t" >>) @@
  ("1,200 sq ft" :> << "1",",","2","0","0"," ","s","q"," ","f","t" >>) @@
  ("0 sq ft" :> << "0"," ","s","q"," ","f","t" >>) @@
  ("-- sq ft" :> << "-","-"," ","s","q"," ","f","t" >>) @@
  ("$500,000" :> << "$","5","0","0",",","0","0","0" >>) @@
  ("$0" :> << "$","0" >>) @@
  ("Contact agent" :> << "C","o","n","t","a","c","t"," ","a","g","e","n","t" >>) @@
  ("ACTIVE" :> << "A","C","T","I","V","E" >>) @@
  ("PENDING" :> << "P","E","N","D","I","N","G" >>) @@
  ("OPEN SAT 1-3PM" :> << "O","P","E","N"," ","S","A","T"," ","1","-","3","P","M" >>) @@
  ("Open today" :> << "O","p","e","n"," ","t","o","d","a","y" >>) @@
  ("ABOUT THIS HOME" :> << "A","B","O","U","T"," ","T","H","I","S"," ","H","O","M","E" >>) @@
  ("captcha" :> << "c","a","p","t","c","h","a" >>) @@
  ("unusual traffic" :> << "u","n","u","s","u","a","l"," ","t","r","a","f","f","i","c" >>) @@
  ("verify you are human" :>
    << "v","e","r","i","f","y"," ","y","o","u"," ","a","r","e"," ","h","u",
       "m","a","n" >>) @@
  ("https://docs.google.com/spreadsheets/d/1AbC-dEf_123/edit" :>
    << "h","t","t","p","s",":","/","/","d","o","c","s",".","g","o","o","g",
       "l","e",".","c","o","m","/","s","p","r","e","a","d","s","h","e","e",
       "t","s","/","d","/","1","A","b","C","-","d","E","f","_","1","2","3",
       "/","e","d","i","t" >>) @@
  ("https://docs.google.com/" :>
    << "h","t","t","p","s",":","/","/","d","o","c","s",".","g","o","o","g",
       "l","e",".","c","o","m","/" >>) @@
  ("spreadsheets/d/" :> << "s","p","r","e","a","d","s","h","e","e","t","s","/","d","/" >>) @@
  ("1AbC-dEf_123" :> << "1","A","b","C","-","d","E","f","_","1","2","3" >>) @@
  ("Homes for sale in Barnstable" :>
    << "H","o","m","e","s"," ","f","o","r"," ","s","a","l","e"," ","i","n",
       " ","B","a","r","n","s","t","a","b","l","e" >>) @@
  ("Please complete the CAPTCHA" :>
    << "P","l","e","a","s","e"," ","c","o","m","p","l","e","t","e"," ","t",
       "h","e"," ","C","A","P","T","C","H","A" >>) @@
  ("Unusual traffic from your network" :>
    << "U","n","u","s","u","a","l"," ","t","r","a","f","f","i","c"," ","f",
       "r","o","m"," ","y","o","u","r"," ","n","e","t","w","o","r","k" >>) @@
  ("Verify you are human to continue" :>
    << "V","e","r","i","f","y"," ","y","o","u"," ","a","r","e"," ","h","u",
       "m","a","n"," ","t","o"," ","c","o","n","t","i","n","u","e" >>)

Chars(s) == Spelling[s]
Join(chars) == CHOOSE s \in DOMAIN Spelling : Spelling[s] = chars

Digit == {"0", "1", "2", "3", "4", "5", "6", "7", "8", "9"}
DigitValue(ch) ==
  CASE ch = "0" -> 0 [] ch = "1" -> 1 [] ch = "2" -> 2 [] ch = "3" -> 3 [] ch = "4" -> 4
    [] ch = "5" -> 5 [] ch = "6" -> 6 [] ch = "7" -> 7 [] ch = "8" -> 8 [] ch = "9" -> 9

\* The longest prefix of chars made of digits (regex \d* and \d+).
RECURSIVE LeadingDigits(_)
LeadingDigits(chars) ==
  IF chars = <<>> \/ Head(chars) \notin Digit THEN <<>>
  ELSE <<Head(chars)>> \o LeadingDigits(Tail(chars))

RECURSIVE DigitsValue(_)
DigitsValue(ds) ==
  IF ds = <<>> THEN 0 ELSE 10 * DigitsValue(SubSeq(ds, 1, Len(ds) - 1)) + DigitValue(ds[Len(ds)])

RECURSIVE Pow10(_)
Pow10(k) == IF k = 0 THEN 1 ELSE 10 * Pow10(k - 1)

RECURSIVE DropTrailingZeros(_)
DropTrailingZeros(ds) ==
  IF ds # <<>> /\ ds[Len(ds)] = "0" THEN DropTrailingZeros(SubSeq(ds, 1, Len(ds) - 1)) ELSE ds

\* JS numbers: NaN, and the finite non-negative decimals n/d with d a power
\* of ten and no trailing zero in the fraction, so that equal numbers are
\* equal values.
NaN == <<"nan">>
Num(n, d) == <<"num", n, d>>
Whole(n) == Num(n, 1)
IsNumber(v) == v[1] \in {"num", "nan"}          \* typeof v === "number"
isNaN(v) == v = NaN

\* parseFloat of a string of digits and dots: the longest decimal literal at
\* its start, NaN when there is none.
parseFloat(chars) ==
  LET whole == LeadingDigits(chars)
      rest == SubSeq(chars, Len(whole) + 1, Len(chars))
      fraction == IF rest # <<>> /\ Head(rest) = "." THEN LeadingDigits(Tail(rest)) ELSE <<>>
      kept == DropTrailingZeros(fraction)
  IN IF whole = <<>> /\ fraction = <<>> THEN NaN
     ELSE Num(DigitsValue(whole) * Pow10(Len(kept)) + DigitsValue(kept), Pow10(Len(kept)))

\* parseInt of a string of digits.
parseInt(chars) == IF chars = <<>> THEN NaN ELSE Whole(DigitsValue(chars))

\* Math.round(a / b) for an integer a > 0 and a number b > 0.
RoundedQuotient(a, b) == Whole((2 * a[2] * b[3] + b[2]) \div (2 * b[2]))

\* regex.test / string.match: the positions where the pattern, a sequence of
\* character sets, matches.
MatchesAt(chars, pattern) ==
  {i \in 1..Len(chars) :
     /\ i + Len(pattern) - 1 <= Len(chars)
     /\ \A k \in 1..Len(pattern) : chars[i + k - 1] \in pattern[k]}

Min(S) == CHOOSE x \in S : \A y \in S : x <= y

\* /OPEN/i
OpenPattern == << {"O", "o"}, {"P", "p"}, {"E", "e"}, {"N", "n"} >>
\* /\/home\/(\d+)/ up to the first digit of the group
HomePattern == << {"/"}, {"h"}, {"o"}, {"m"}, {"e"}, {"/"}, Digit >>

\* The i flag: a letter of the pattern matches itself in either case.
UpperCase ==
  [c \in {"a", "c", "e", "f", "h", "i", "l", "m", "n", "o", "p", "r", "s", "t", "u",
          "v", "y"} |->
     CASE c = "a" -> "A" [] c = "c" -> "C" [] c = "e" -> "E" [] c = "f" -> "F"
       [] c = "h" -> "H" [] c = "i" -> "I" [] c = "l" -> "L" [] c = "m" -> "M"
       [] c = "n" -> "N" [] c = "o" -> "O" [] c = "p" -> "P" [] c = "r" -> "R"
       [] c = "s" -> "S" [] c = "t" -> "T" [] c = "u" -> "U" [] c = "v" -> "V"
       [] c = "y" -> "Y"]

IgnoreCase(chars) ==
  [i \in 1..Len(chars) |->
     IF chars[i] \in DOMAIN UpperCase THEN {chars[i], UpperCase[chars[i]]} ELSE {chars[i]}]

\* /captcha|unusual traffic|verify you are human/i
ChallengePatterns ==
  {IgnoreCase(Chars("captcha")), IgnoreCase(Chars("unusual traffic")),
   IgnoreCase(Chars("verify you are human"))}

(***************************************************************************)
(* Listings.  listingId is the digit string of the /home/<digits> link     *)
(* segment, or null.                                                       *)
(***************************************************************************)
IdNames == <<"101", "102", "103", "104">>
AddressNames == <<"1 Main St, Barnstable, MA 02630", "2 Main St, Barnstable, MA 02630",
                  "3 Main St, Barnstable, MA 02630", "4 Main St, Barnstable, MA 02630">>
LinkNames == <<"https://www.redfin.com/MA/Barnstable/1-Main-St/home/101",
               "https://www.redfin.com/MA/Barnstable/2-Main-St/home/102",
               "https://www.redfin.com/MA/Barnstable/3-Main-St/home/103",
               "https://www.redfin.com/MA/Barnstable/4-Main-St/home/104">>
Ids == {Str(IdNames[i]) : i \in 1..MaxIds}

FirstDate == "2025-06-01"
Dates == {FirstDate, "2025-06-02"}

\* The placeholder for a value the page does not give: the em dash U+2014,
\* written -- here.
Dash == Str("--")

\* A home card of the rendered page, as extractPropertyData reads it: the
\* trimmed text of the element each selector finds (null when there is no
\* such element), the card's own href and the href of its first anchor.
NoText == Null
HomeCard(c) ==
  [price |-> Str("$500,000"),
   address |-> IF c = 0 THEN Str("9 Elm St, Barnstable, MA 02630") ELSE Str(AddressNames[c]),
   beds |-> Str("3 beds"),
   baths |-> Str("2 baths"),
   sqft |-> Str("2,000 sq ft"),
   status |-> Str("ACTIVE"),
   href |-> IF c = 0 THEN Str("https://www.redfin.com/MA/Barnstable") ELSE Str(LinkNames[c]),
   anchor |-> Null]

\* Home cards of the pages of the pipeline: card c > 0 links to
\* /home/<IdNames[c]>, card 0 has a link without the numeric id segment.
CardIndices == 0..MaxIds
Cards == {HomeCard(c) : c \in CardIndices}

\* Lines 116-121.
normalizeNumber(str) ==
  IF ~Truthy(str) THEN Null
  ELSE LET num == SelectSeq(Chars(str[2]), LAMBDA ch : ch \in Digit \cup {"."})
       IN IF num # <<>> THEN parseFloat(num) ELSE Null

\* Lines 170-176: the zip code is the five digits that end the address.
zipCodeOf(address) == IF address = Dash THEN Dash ELSE Str("02630")

\* Lines 132-140: the digits of the first /home/<digits> segment of the link.
listingIdOf(link) ==
  LET chars == Chars(link[2])
      homeAt == IF Truthy(link) THEN MatchesAt(chars, HomePattern) ELSE {}
  IN IF homeAt = {} THEN Null
     ELSE Str(Join(LeadingDigits(SubSeq(chars, Min(homeAt) + 6, Len(chars)))))

\* Line 141 as it would be without the test of bedsRaw.
bedsOfUnguarded(bedsRaw) == normalizeNumber(bedsRaw)

\* Line 141.
bedsOf(bedsRaw) == IF Truthy(bedsRaw) THEN normalizeNumber(bedsRaw) ELSE Dash

\* Lines 142-148.
bathsOf(bathsRaw) ==
  LET parsedBaths == normalizeNumber(bathsRaw)
  IN IF Truthy(bathsRaw) /\ IsNumber(parsedBaths) /\ ~isNaN(parsedBaths)
       THEN parsedBaths ELSE Dash

\* Line 149.
sqftOf(sqftRaw) == IF Truthy(sqftRaw) THEN normalizeNumber(sqftRaw) ELSE Dash

\* Lines 151-152.
priceNumOf(price) ==
  IF Truthy(price) /\ price # Dash
    THEN parseInt(SelectSeq(Chars(price[2]), LAMBDA ch : ch \in Digit))
    ELSE Null

\* Lines 154-171 as they would be if the open-house branch also assigned
\* listingStatus.
statusFieldsKeepsStatus(status) ==
  IF ~Truthy(status)
    THEN [listingStatus |-> Dash, openHouseInfo |-> Null, isOpenHouse |-> Bool(FALSE)]
  ELSE IF MatchesAt(Chars(status[2]), OpenPattern) # {}
    THEN [listingStatus |-> status, openHouseInfo |-> status, isOpenHouse |-> Bool(TRUE)]
  ELSE [listingStatus |-> status, openHouseInfo |-> Null, isOpenHouse |-> Bool(FALSE)]

\* Lines 154-171: both non-open branches assign listingStatus = status.
statusFields(status) ==
  IF ~Truthy(status)
    THEN [listingStatus |-> Dash, openHouseInfo |-> Null, isOpenHouse |-> Bool(FALSE)]
  ELSE IF MatchesAt(Chars(status[2]), OpenPattern) # {}
    THEN [listingStatus |-> Dash, openHouseInfo |-> status, isOpenHouse |-> Bool(TRUE)]
  ELSE [listingStatus |-> status, openHouseInfo |-> Null, isOpenHouse |-> Bool(FALSE)]

\* Lines 173-176 as they would be without the sqft !== "--" test: dividing by
\* the placeholder string gives NaN.
pricePerSqftOfAnySqft(priceNum, sqft) ==
  IF Truthy(priceNum) /\ Truthy(sqft)
    THEN (IF sqft = Dash THEN NaN ELSE RoundedQuotient(priceNum, sqft))
    ELSE Dash

\* Lines 173-176.
pricePerSqftOf(priceNum, sqft) ==
  IF Truthy(priceNum) /\ Truthy(sqft) /\ sqft # Dash
    THEN RoundedQuotient(priceNum, sqft) ELSE Dash

\* The object extractPropertyData returns for a card (lines 122-222).
extractPropertyData(card) ==
  LET price == OrElse(card.price, Dash)
      address == OrElse(card.address, Dash)
      status == IF card.status = Str("ABOUT THIS HOME") THEN Null ELSE card.status
      link == OrElse(card.href, OrElse(card.anchor, Null))
      sqft == sqftOf(card.sqft)
      split == statusFields(status)
  IN [listingId |-> listingIdOf(link),
      price |-> price,
      address |-> address,
      zipCode |-> zipCodeOf(address),
      beds |-> bedsOf(card.beds),
      baths |-> bathsOf(card.baths),
      sqft |-> sqft,
      pricePerSqft |-> pricePerSqftOf(priceNumOf(price), sqft),
      listingStatus |-> split.listingStatus,
      openHouseInfo |-> split.openHouseInfo,
      isOpenHouse |-> split.isOpenHouse,
      link |-> link]

Listings == {extractPropertyData(c) : c \in Cards}

RECURSIVE SeqsUpTo(_, _)
SeqsUpTo(S, n) ==
  IF n = 0 THEN {<<>>}
  ELSE LET shorter == SeqsUpTo(S, n - 1)
       IN shorter \cup {Append(s, x) : s \in {t \in shorter : Len(t) = n - 1}, x \in S}

\* Any batch a caller may hand to the synchronizer.
Batches == SeqsUpTo(Listings, MaxBatch)

\* The cards of one rendered page, in page order.
Pages == SeqsUpTo(Cards, MaxBatch)

\* The filter as it would be if a later card replaced an earlier one of the
\* same id.
FilterSeenKeepsLast(ls, seen) ==
  LET kept == {i \in 1..Len(ls) :
                 /\ Truthy(ls[i].address) /\ Truthy(ls[i].listingId)
                 /\ ls[i].listingId \notin seen
                 /\ \A j \in (i + 1)..Len(ls) : ls[j].listingId # ls[i].listingId}
      RECURSIVE From(_)
      From(i) == IF i > Len(ls) THEN <<>>
                 ELSE (IF i \in kept THEN <<ls[i]>> ELSE <<>>) \o From(i + 1)
  IN From(1)

\* The filter as it would be without the listing.listingId test.
FilterSeenKeepsIdless(ls, seen) ==
  LET kept == {i \in 1..Len(ls) :
                 /\ Truthy(ls[i].address)
                 /\ ls[i].listingId \notin seen
                 /\ \A j \in 1..(i - 1) : ls[j].listingId # ls[i].listingId}
      RECURSIVE From(_)
      From(i) == IF i > Len(ls) THEN <<>>
                 ELSE (IF i \in kept THEN <<ls[i]>> ELSE <<>>) \o From(i + 1)
  IN From(1)

\* The filter of extractListings: keep a listing with an address and an id
\* whose id was not seen earlier on the page.
RECURSIVE FilterSeen(_, _)
FilterSeen(ls, seen) ==
  IF ls = <<>> THEN <<>>
  ELSE LET l == Head(ls)
           keep == Truthy(l.address) /\ Truthy(l.listingId) /\ l.listingId \notin seen
       IN IF keep THEN <<l>> \o FilterSeen(Tail(ls), seen \cup {l.listingId})
          ELSE FilterSeen(Tail(ls), seen)

\* The texts the elements of the varied card can hold, and the cards made of
\* them: the numeric texts in every combination, and the status, address and
\* link in every combination.
BedsTexts == {NoText, Str(""), Str("3 beds"), Str("0 beds"), Str("-- beds"), Str("n.a.")}
BathsTexts == {NoText, Str(""), Str("2.5 baths"), Str("0 baths"), Str("-- baths"), Str("n.a.")}
SqftTexts == {NoText, Str(""), Str("2,000 sq ft"), Str("1,200 sq ft"), Str("0 sq ft"),
              Str("-- sq ft"), Str("n.a.")}
PriceTexts == {NoText, Str("$500,000"), Str("$0"), Str("Contact agent")}
StatusTexts == {NoText, Str(""), Str("PENDING"), Str("OPEN SAT 1-3PM"), Str("Open today"),
                Str("ABOUT THIS HOME")}
AddressTexts == {NoText, Str(AddressNames[1])}
\* The card's own href and the href of its first anchor.
LinkPairs ==
  { <<Null, Null>>, <<Str(LinkNames[1]), Null>>, <<Null, Str(LinkNames[1])>>,
    <<Str("https://www.redfin.com/MA/Barnstable"), Null>>,
    <<Str("https://www.redfin.com/home/tour"), Null>> }

VariedCards ==
  {[HomeCard(1) EXCEPT !.beds = b, !.baths = ba, !.sqft = sq, !.price = p] :
      b \in BedsTexts, ba \in BathsTexts, sq \in SqftTexts, p \in PriceTexts}
  \cup {[HomeCard(1) EXCEPT !.status = st, !.address = ad, !.href = lp[1], !.anchor = lp[2]] :
          st \in StatusTexts, ad \in AddressTexts, lp \in LinkPairs}

\* What extractPropertyData returns for each card of the model.
ListingOf == [card \in Cards \cup VariedCards |-> extractPropertyData(card)]

extractListings(cards) ==
  FilterSeen([i \in 1..Len(cards) |-> ListingOf[cards[i]]], {})

ExtractorOutputs == {extractListings(p) : p \in Pages}

(***************************************************************************)
(* GoogleSheetsManager.  A sheet is the sequence of its rows, a row the    *)
(* sequence of its 13 cells.                                               *)
(***************************************************************************)
COL_LISTING_ID == 1   \* zero-based column index of 'Listing ID'

headers ==
  << Str("Address"), Str("Listing ID"), Str("Zip Code"), Str("Price"),
     Str("Beds"), Str("Baths"), Str("Sq Ft"), Str("Price per Sq Ft"),
     Str("Listing Status"), Str("Is Open House?"), Str("Open House Info"),
     Str("Link"), Str("Date Added") >>

listingToRow(listing, today) ==
  << OrElse(listing.address, Str("")),
     OrElse(listing.listingId, Str("")),
     OrElse(listing.zipCode, Str("")),
     OrElse(listing.price, Str("")),
     OrElse(listing.beds, Str("")),
     OrElse(listing.baths, Str("")),
     OrElse(listing.sqft, Str("")),
     OrElse(listing.pricePerSqft, Str("")),
     OrElse(listing.listingStatus, Str("")),
     IF Truthy(listing.isOpenHouse) THEN Str("Yes") ELSE Str("No"),
     OrElse(listing.openHouseInfo, Str("")),
     OrElse(listing.link, Str("")),
     Str(today) >>

\* values.get of the range Sheet1!B2:B: the cells of column B from the second
\* sheet row down.
RangeB2B(sheet) ==
  [i \in 1..(IF Len(sheet) > 1 THEN Len(sheet) - 1 ELSE 0) |->
      sheet[i + 1][COL_LISTING_ID + 1]]

\* The dedup read as it would be if a failed read still filtered by the ids
\* stored in the sheet.
getExistingListingIdsDespiteFailure(sheet, readOk) ==
  LET values == RangeB2B(sheet)
  IN {values[i] : i \in {k \in 1..Len(values) : Truthy(values[k])}}

\* readOk = FALSE: the read throws and the catch returns an empty Set.
getExistingListingIds(sheet, readOk) ==
  IF readOk
    THEN LET values == RangeB2B(sheet)
         IN {values[i] : i \in {k \in 1..Len(values) : Truthy(values[k])}}
    ELSE {}

\* The outcomes of the four spreadsheet requests one appendToSpreadsheet call
\* makes: the A:H read, the dedup read, the bulk append, the formatting
\* batchUpdate.
SyncEnvs == [getOk : BOOLEAN, idsOk : BOOLEAN, appendOk : BOOLEAN, formatOk : BOOLEAN]

MapRows(data, today) == [i \in 1..Len(data) |-> listingToRow(data[i], today)]

\* The call as it would be if the new rows were inserted above the stored ones.
appendToSpreadsheetInsertsOnTop(sheet, data, today, env) ==
  LET currentRows == IF Len(sheet) > 0 THEN Len(sheet) ELSE 1
      existingIds == getExistingListingIds(sheet, env.idsOk)
      newData == SelectSeq(data, LAMBDA l :
                     Truthy(l.listingId) /\ l.listingId \notin existingIds)
      rows == MapRows(newData, today)
      nothing == [sheet |-> sheet, threw |-> FALSE, newCount |-> 0,
                  appendCalls |-> 0, appended |-> <<>>, formatRowCount |-> 0,
                  requests |-> <<"get", "ids">>]
  IN  IF ~env.getOk
        THEN [nothing EXCEPT !.threw = TRUE, !.requests = <<"get">>]
      ELSE IF Len(newData) = 0
        THEN nothing
      ELSE IF ~env.appendOk
        THEN [nothing EXCEPT !.threw = TRUE, !.appendCalls = 1,
                             !.requests = <<"get", "ids", "append">>]
      ELSE IF ~env.formatOk
        THEN [sheet |-> rows \o sheet, threw |-> TRUE, newCount |-> 0,
              appendCalls |-> 1, appended |-> rows,
              formatRowCount |-> currentRows + Len(rows),
              requests |-> <<"get", "ids", "append", "format">>]
      ELSE [sheet |-> rows \o sheet, threw |-> FALSE, newCount |-> Len(newData),
            appendCalls |-> 1, appended |-> rows,
            formatRowCount |-> currentRows + Len(rows),
            requests |-> <<"get", "ids", "append", "format">>]

\* The call as a function of the sheet before it: the sheet after it, whether
\* it threw, the newCount it returned, and the requests it issued (the A:H
\* read, the dedup read, the bulk append, the formatting update, in the order
\* of lines 567-587).
appendToSpreadsheet(sheet, data, today, env) ==
  LET currentRows == IF Len(sheet) > 0 THEN Len(sheet) ELSE 1
      existingIds == getExistingListingIds(sheet, env.idsOk)
      newData == SelectSeq(data, LAMBDA l :
                     Truthy(l.listingId) /\ l.listingId \notin existingIds)
      rows == MapRows(newData, today)
      nothing == [sheet |-> sheet, threw |-> FALSE, newCount |-> 0,
                  appendCalls |-> 0, appended |-> <<>>, formatRowCount |-> 0,
                  requests |-> <<"get", "ids">>]
  IN  IF ~env.getOk
        THEN [nothing EXCEPT !.threw = TRUE, !.requests = <<"get">>]
      ELSE IF Len(newData) = 0
        THEN nothing
      ELSE IF ~env.appendOk
        THEN [nothing EXCEPT !.threw = TRUE, !.appendCalls = 1,
                             !.requests = <<"get", "ids", "append">>]
      ELSE IF ~env.formatOk
        THEN [sheet |-> sheet \o rows, threw |-> TRUE, newCount |-> 0,
              appendCalls |-> 1, appended |-> rows,
              formatRowCount |-> currentRows + Len(rows),
              requests |-> <<"get", "ids", "append", "format">>]
      ELSE [sheet |-> sheet \o rows, threw |-> FALSE, newCount |-> Len(newData),
            appendCalls |-> 1, appended |-> rows,
            formatRowCount |-> currentRows + Len(rows),
            requests |-> <<"get", "ids", "append", "format">>]

\* The listing ids stored in the sheet's identity column (header excluded).
IsHeader(row) == row = headers
StoredIds(sheet) ==
  [i \in 1..Len(SelectSeq(sheet, LAMBDA r : ~IsHeader(r))) |->
      SelectSeq(sheet, LAMBDA r : ~IsHeader(r))[i][COL_LISTING_ID + 1]]

NoDuplicateIds(sheet) ==
  LET ids == StoredIds(sheet)
  IN \A i, j \in 1..Len(ids) : (i # j /\ Truthy(ids[i])) => ids[i] # ids[j]

(***************************************************************************)
(* Program constants.                                                      *)
(***************************************************************************)
maxRetries == 3            \* scrapeRedfinWithRetry(redfinUrl, maxRetries = 3)
RetryDelayMs == 5000       \* setTimeout(resolve, 5000) between attempts
RescheduleMs == 1800000    \* 1000 * 60 * 30

NoTime == -1               \* a null last_run / next_run

(***************************************************************************)
(* scrapeRedfin: one attempt.  The attempt either fails at one of its      *)
(* steps or extracts the cards of the page it rendered.                    *)
(***************************************************************************)
Steps == <<"launch", "newPage", "goto", "content", "autoScroll", "extractListings">>

StepMessage(step) ==
  CASE step = "launch" -> "Failed to launch the browser process"
    [] step = "newPage" -> "Protocol error (Target.createTarget): Target closed"
    [] step = "goto" -> "Navigation timeout of 20000 ms exceeded"
    [] step = "content" -> "Execution context was destroyed"
    [] step = "autoScroll" -> "Protocol error (Runtime.callFunctionOn): Session closed"
    [] step = "extractListings" -> "Evaluation failed"

\* What page.content() can return: the markup of a results page, or that of
\* a page the site put in its place.
ResultsContent == "Homes for sale in Barnstable"
ChallengeContents == {"Please complete the CAPTCHA", "Unusual traffic from your network",
                      "Verify you are human to continue"}

\* Line 70: the test of the page content against the challenge markers.
challengeDetected ==
  [pageContent \in {ResultsContent} \cup ChallengeContents |->
     \E pattern \in ChallengePatterns : MatchesAt(Chars(pageContent), pattern) # {}]

\* The attempts of a sweep whose pages are results pages.
AttemptOutcomes ==
  [failsAt : {Steps[i] : i \in 1..Len(Steps)}, page : {<<>>}, content : {ResultsContent}]
    \cup [failsAt : {"none"}, page : Pages, content : {ResultsContent}]

\* The attempts of a sweep that can be served a challenge page: its content
\* carries a marker, and its cards are whatever the page shows.
ChallengedOutcomes ==
  AttemptOutcomes
    \cup [failsAt : {"autoScroll", "extractListings"}, page : {<<>>}, content : ChallengeContents]
    \cup [failsAt : {"none"}, page : {<<>>, <<HomeCard(1)>>}, content : ChallengeContents]

\* Steps after which the page content has been read and tested.
ContentRead(step) == step \in {"autoScroll", "extractListings", "none"}

\* Steps inside the try block, whose finally closes the browser.
InTry(step) == step \in {"goto", "content", "autoScroll", "extractListings"}

\* scrapeRedfin as it would be if an attempt that extracts nothing threw.
scrapeRedfinThrowsOnEmpty(outcome) ==
  LET step == outcome.failsAt
      opened == step # "launch"
      listings == IF step = "none" THEN extractListings(outcome.page) ELSE <<>>
  IN [threw |-> step # "none" \/ Len(listings) = 0,
      message |-> IF step = "none" THEN <<"No listings extracted">> ELSE <<StepMessage(step)>>,
      listings |-> listings,
      flagged |-> ContentRead(step) /\ challengeDetected[outcome.content],
      opened |-> opened,
      closed |-> opened /\ (step = "none" \/ InTry(step))]

\* scrapeRedfin as it would be if a detected challenge ended the attempt.
scrapeRedfinThrowsOnChallenge(outcome) ==
  LET step == outcome.failsAt
      opened == step # "launch"
      flagged == ContentRead(step) /\ challengeDetected[outcome.content]
  IN [threw |-> step # "none" \/ flagged,
      message |-> IF step # "none" THEN <<StepMessage(step)>>
                  ELSE IF flagged THEN <<"Bot detection triggered">> ELSE <<>>,
      listings |-> IF step = "none" /\ ~flagged THEN extractListings(outcome.page) ELSE <<>>,
      flagged |-> flagged,
      opened |-> opened,
      closed |-> opened /\ (step = "none" \/ InTry(step))]

\* What one scrapeRedfin call does: whether it threw and with which message,
\* the listings it returned, whether it logged a detected challenge, whether
\* it opened a browser and whether it closed the browser it opened.
scrapeRedfin(outcome) ==
  LET step == outcome.failsAt
      opened == step # "launch"
  IN [threw |-> step # "none",
      message |-> IF step = "none" THEN <<>> ELSE <<StepMessage(step)>>,
      listings |-> IF step = "none" THEN extractListings(outcome.page) ELSE <<>>,
      flagged |-> ContentRead(step) /\ challengeDetected[outcome.content],
      opened |-> opened,
      closed |-> opened /\ (step = "none" \/ InTry(step))]

(***************************************************************************)
(* Job store.                                                              *)
(***************************************************************************)
JobIds == 1..NumJobs

OwnerEmail == Str("owner@example.com")

\* The search page and the spreadsheet links jobs are created with: a link
\* that names a spreadsheet, and one that names none.
SearchUrl == "https://www.redfin.com/city/35/MA/Barnstable"
SheetLink == "https://docs.google.com/spreadsheets/d/1AbC-dEf_123/edit"
NoSheetLink == "https://docs.google.com/"

\* When the run of a job ended that an earlier sweep, started at time 0,
\* processed after a job that took both retry delays.
PriorRunMs == 2 * RetryDelayMs

\* Rows of the jobs table as a sweep can find them: a job never run, a job whose
\* first run failed, a job an earlier sweep ran with success and that is not
\* due again yet, and a deactivated job.
JobRowKinds ==
  << [active |-> TRUE, job_status |-> "idle", last_run |-> NoTime, next_run |-> NoTime,
      user_email |-> OwnerEmail, redfin_url |-> SearchUrl, sheet_url |-> SheetLink],
     [active |-> TRUE, job_status |-> "failed", last_run |-> NoTime, next_run |-> NoTime,
      user_email |-> OwnerEmail, redfin_url |-> SearchUrl, sheet_url |-> SheetLink],
     [active |-> TRUE, job_status |-> "success", last_run |-> PriorRunMs,
      next_run |-> PriorRunMs + RescheduleMs,
      user_email |-> Null, redfin_url |-> SearchUrl, sheet_url |-> NoSheetLink],
     [active |-> FALSE, job_status |-> "success", last_run |-> 0, next_run |-> RescheduleMs,
      user_email |-> OwnerEmail, redfin_url |-> SearchUrl, sheet_url |-> SheetLink] >>

JobRows == {JobRowKinds[k] : k \in 1..Len(JobRowKinds)}

\* The tables a sweep starts from: the row kinds in rotation, starting at any
\* of them.
JobTables ==
  {[j \in JobIds |-> JobRowKinds[((j + k) % Len(JobRowKinds)) + 1]] :
      k \in 1..Len(JobRowKinds)}

\* supabase .update(payload).eq("id", id): the fields of payload replace the
\* row's fields.
ApplyUpdate(row, payload) ==
  [f \in DOMAIN row |-> IF f \in DOMAIN payload THEN payload[f] ELSE row[f]]

\* How an awaited store request can end: the row is written; the client
\* resolves with an error object and nothing is written; the await rejects
\* and nothing is written.
StoreOutcomes == {"ok", "error", "throw"}
StoreReliable == {"ok"}

\* The select as it would be without the filter on active.
ActiveJobsUnfiltered(table) == [i \in 1..NumJobs |-> i]

\* select("*").eq("active", true): the active rows in table order.
ActiveJobs(table) == SelectSeq([i \in 1..NumJobs |-> i], LAMBDA j : table[j].active)

(***************************************************************************)
(* State.                                                                  *)
(***************************************************************************)
VARIABLES
  sheet,        \* rows of the destination spreadsheet (in the sweep: of the one the current job writes to)
  today,        \* the date new Date() yields in listingToRow
  syncRuns,     \* SpecSync: appendToSpreadsheet calls made so far
  lastRun,      \* SpecSync: the latest call, which of its requests worked, what it returned
  writers,      \* SpecRace: per process, where its appendToSpreadsheet call is and what it read
  extraction,   \* SpecExtract: the cards of the page and what extractListings made of them
  scroll,       \* SpecScroll: the timer of autoScroll, its totalHeight, the height of the page
  pipelineOnly, \* SpecSync: every call so far got an extractor batch and its dedup read succeeded
  store,        \* the jobs table
  store0,       \* the jobs table as the sweep found it
  now,          \* the clock, ms
  pc,           \* where the job processor is
  jobs,         \* the rows the select returned (job ids)
  idx,          \* position of the current job in jobs
  startTime,    \* startTime of the current loop iteration
  attempt,      \* scrapeRedfinWithRetry: attempt number
  lastError,    \* scrapeRedfinWithRetry: message of lastError
  delays,       \* retry delays taken in the current scrapeRedfinWithRetry call
  attempts,     \* scrapeRedfin calls made by the current scrapeRedfinWithRetry call
  lastAttempt,  \* outcome of the latest scrapeRedfin call
  openSessions, \* browsers launched and not closed
  scrape,       \* how the current scrapeRedfinWithRetry call ended
  result,       \* what runScraper returned
  caught,       \* error.message in the job's catch block
  writes,       \* update payloads sent to the store for the current job
  fate,         \* per job: how its loop iteration ended
  emailService, \* whether the sweep constructed an EmailService
  transporter,  \* whether emailService.transporter is set
  outbox,       \* the mails transporter.sendMail accepted: recipient, kind, job
  lastMail      \* the latest send* call of the email service, and how it ended

syncVars == <<sheet, today, syncRuns, lastRun, pipelineOnly, writers, extraction, scroll>>
sweepVars == <<store, store0, now, pc, jobs, idx, startTime, attempt, lastError,
               delays, attempts, lastAttempt, openSessions, scrape, result, caught, writes, fate,
               emailService, transporter, outbox, lastMail>>
vars == <<sheet, today, syncRuns, lastRun, pipelineOnly, writers, extraction, scroll, store, store0, now, pc,
          jobs, idx, startTime, attempt, lastError, delays, attempts, lastAttempt,
          openSessions, scrape, result, caught, writes, fate,
          emailService, transporter, outbox, lastMail>>

NoRun == [made |-> FALSE, data |-> <<>>, idsOk |-> FALSE, othersOk |-> FALSE,
          threw |-> FALSE, newCount |-> 0, path |-> "none", scraped |-> "none"]

RunRecord(data, env, r) ==
  [made |-> TRUE, data |-> data, idsOk |-> env.idsOk,
   othersOk |-> (env.getOk /\ env.appendOk /\ env.formatOk),
   path |-> "append", scraped |-> "none",
   threw |-> r.threw, newCount |-> r.newCount]

\* Processes that can run the synchronizer against one destination.
Writers == 1..2

\* stale: the process has appended rows after a dedup read that no longer
\* showed the sheet as it was at the time of the append.
WriterIdle == [at |-> "idle", data |-> <<>>, currentRows |-> 0, existingIds |-> {},
               readAt |-> 0, stale |-> FALSE]

\* No page is being scrolled.
NoScroll == [at |-> "none", totalHeight |-> 0, scrollHeight |-> 0, pageHeight |-> 0, growths |-> 0]

\* No page has been evaluated.
NoExtraction == [at |-> "none", cards |-> <<>>, listings |-> <<>>]

NoWriters == [w \in Writers |-> WriterIdle]

\* A destination a job can point at before its first run: a blank sheet, or a
\* sheet holding the header row.
InitialSheets == {<<>>, <<headers>>}

\* A destination as a run of a job can find it: blank, holding the header row,
\* or holding the header row and a listing an earlier run appended.
JobSheets ==
  InitialSheets \cup {<<headers, listingToRow(extractPropertyData(HomeCard(1)), FirstDate)>>}

NoFate == [ended |-> "none", scrapeRaised |-> FALSE]
NoAttempt == [failsAt |-> "none", message |-> <<>>, found |-> 0, flagged |-> FALSE]
NoMail == [to |-> Null, kind |-> "none", job |-> 0, count |-> 0, message |-> <<>>,
           outcome |-> "none"]
NoScrape == [kind |-> "none", listings |-> <<>>, message |-> <<>>]
NoResult == [success |-> FALSE, message |-> <<>>, count |-> 0, returned |-> FALSE]

SweepIdle ==
  /\ now = RescheduleMs
  /\ pc = "select"
  /\ jobs = <<>>
  /\ idx = 0
  /\ startTime = NoTime
  /\ attempt = 0
  /\ lastError = <<>>
  /\ delays = 0
  /\ attempts = 0
  /\ lastAttempt = NoAttempt
  /\ openSessions = 0
  /\ scrape = NoScrape
  /\ result = NoResult
  /\ caught = <<>>
  /\ writes = <<>>
  /\ fate = [j \in JobIds |-> NoFate]
  /\ emailService = FALSE
  /\ transporter = FALSE
  /\ outbox = <<>>
  /\ lastMail = NoMail

InitSync ==
  /\ sheet \in InitialSheets
  /\ today \in Dates
  /\ syncRuns = 0
  /\ lastRun = NoRun
  /\ pipelineOnly = TRUE
  /\ writers = NoWriters
  /\ extraction = NoExtraction
  /\ scroll = NoScroll
  /\ store \in [JobIds -> {r \in JobRows : ~r.active}]
  /\ store0 = store
  /\ SweepIdle

\* One appendToSpreadsheet(spreadsheetId, data) call by the single writer.
AppendCall ==
  /\ syncRuns < MaxRuns
  /\ \E data \in Batches, env \in SyncEnvs :
       LET r == appendToSpreadsheet(sheet, data, today, env)
       IN /\ sheet' = r.sheet
          /\ lastRun' = RunRecord(data, env, r)
          /\ pipelineOnly' = (pipelineOnly /\ data \in ExtractorOutputs /\ env.idsOk)
  /\ syncRuns' = syncRuns + 1
  /\ UNCHANGED <<today, writers, extraction, scroll>>
  /\ UNCHANGED sweepVars

NextSync == AppendCall

SpecSync == InitSync /\ [][NextSync]_vars

(***************************************************************************)
(* Two processes running appendToSpreadsheet against one destination.  The *)
(* call is a chain of awaited requests; the other process can run between  *)
(* any two of them.  Every request succeeds.                               *)
(***************************************************************************)
InitRace ==
  /\ sheet \in InitialSheets
  /\ today = FirstDate
  /\ syncRuns = 0
  /\ lastRun = NoRun
  /\ pipelineOnly = TRUE
  /\ writers = NoWriters
  /\ extraction = NoExtraction
  /\ scroll = NoScroll
  /\ store \in [JobIds -> {r \in JobRows : ~r.active}]
  /\ store0 = store
  /\ SweepIdle

\* Line 567-568: the call starts with the A:H read.
RaceBegin(w) ==
  /\ writers[w].at = "idle"
  /\ syncRuns < MaxRuns
  /\ \E data \in ExtractorOutputs \ {<<>>} :
       writers' = [writers EXCEPT ![w].at = "readIds", ![w].data = data,
                                  ![w].currentRows = IF Len(sheet) > 0 THEN Len(sheet) ELSE 1]
  /\ syncRuns' = syncRuns + 1
  /\ UNCHANGED <<sheet, today, lastRun, pipelineOnly, extraction, scroll>>
  /\ UNCHANGED sweepVars

\* Line 569: the dedup read.
RaceReadIds(w) ==
  /\ writers[w].at = "readIds"
  /\ writers' = [writers EXCEPT ![w].at = "append",
                                ![w].existingIds = getExistingListingIds(sheet, TRUE),
                                ![w].readAt = Len(sheet)]
  /\ UNCHANGED <<sheet, today, syncRuns, lastRun, pipelineOnly, extraction, scroll>>
  /\ UNCHANGED sweepVars

\* Lines 570-585: the filter, the early return, the bulk append.
RaceAppend(w) ==
  /\ writers[w].at = "append"
  /\ LET newData == SelectSeq(writers[w].data, LAMBDA l :
                        Truthy(l.listingId) /\ l.listingId \notin writers[w].existingIds)
     IN IF Len(newData) = 0
          THEN /\ writers' = [writers EXCEPT ![w] = [WriterIdle EXCEPT !.stale = writers[w].stale]]
               /\ UNCHANGED sheet
          ELSE /\ sheet' = sheet \o MapRows(newData, today)
               /\ writers' = [writers EXCEPT ![w].at = "format",
                                             ![w].stale = (@ \/ writers[w].readAt # Len(sheet))]
  /\ UNCHANGED <<today, syncRuns, lastRun, pipelineOnly, extraction, scroll>>
  /\ UNCHANGED sweepVars

\* Lines 586-592: the formatting batchUpdate and the return.
RaceFormat(w) ==
  /\ writers[w].at = "format"
  /\ writers' = [writers EXCEPT ![w] = [WriterIdle EXCEPT !.stale = writers[w].stale]]
  /\ UNCHANGED <<sheet, today, syncRuns, lastRun, pipelineOnly, extraction, scroll>>
  /\ UNCHANGED sweepVars

NextRace ==
  \/ \E w \in Writers : RaceBegin(w)
  \/ \E w \in Writers : RaceReadIds(w)
  \/ \E w \in Writers : RaceAppend(w)
  \/ \E w \in Writers : RaceFormat(w)

SpecRace == InitRace /\ [][NextRace]_vars

(***************************************************************************)
(* The extractor on its own: extractListings evaluated on one page, and    *)
(* its output appended to a destination that holds the header row.  The    *)
(* page holds one card whose texts vary, between home cards of the         *)
(* pipeline.                                                               *)
(***************************************************************************)
AllRequestsOk == [getOk |-> TRUE, idsOk |-> TRUE, appendOk |-> TRUE, formatOk |-> TRUE]

InitExtract ==
  /\ sheet = <<headers>>
  /\ today = FirstDate
  /\ syncRuns = 0
  /\ lastRun = NoRun
  /\ pipelineOnly = TRUE
  /\ writers = NoWriters
  /\ \E card \in VariedCards, before \in SeqsUpTo(Cards, 1), after \in SeqsUpTo(Cards, 1) :
       extraction = [at |-> "page", cards |-> before \o <<card>> \o after, listings |-> <<>>]
  /\ scroll = NoScroll
  /\ store \in [JobIds -> {r \in JobRows : ~r.active}]
  /\ store0 = store
  /\ SweepIdle

\* scraper.js line 82: extractListings(page).
Evaluate ==
  /\ extraction.at = "page"
  /\ extraction' = [extraction EXCEPT !.at = "listings",
                                      !.listings = extractListings(extraction.cards)]
  /\ UNCHANGED <<sheet, today, syncRuns, lastRun, pipelineOnly, writers, scroll>>
  /\ UNCHANGED sweepVars

\* The synchronizer appends the listings of the page.
WriteRows ==
  /\ extraction.at = "listings"
  /\ sheet' = appendToSpreadsheet(sheet, extraction.listings, today, AllRequestsOk).sheet
  /\ extraction' = [extraction EXCEPT !.at = "written"]
  /\ UNCHANGED <<today, syncRuns, lastRun, pipelineOnly, writers, scroll>>
  /\ UNCHANGED sweepVars

NextExtract == Evaluate \/ WriteRows

SpecExtract == InitExtract /\ [][NextExtract]_vars

(***************************************************************************)
(* autoScroll: an interval timer scrolls the page down by a fixed distance *)
(* per tick until the distance scrolled reaches the height measured in     *)
(* that tick.  The page can grow while it is scrolled (lazy-loaded cards). *)
(***************************************************************************)
distance == 100

\* How often the page grows during one autoScroll call, at most.
MaxGrowths == 3

\* The heights of a page when autoScroll starts, and the heights a batch of
\* lazy-loaded cards adds.
InitialHeights == {0, 250, 600}
GrowthSteps == {150, 400}

InitScroll ==
  /\ sheet = <<>>
  /\ today = FirstDate
  /\ syncRuns = 0
  /\ lastRun = NoRun
  /\ pipelineOnly = TRUE
  /\ writers = NoWriters
  /\ extraction = NoExtraction
  /\ \E h \in InitialHeights :
       scroll = [at |-> "ticking", totalHeight |-> 0, scrollHeight |-> 0, pageHeight |-> h,
                 growths |-> 0]
  /\ store \in [JobIds -> {r \in JobRows : ~r.active}]
  /\ store0 = store
  /\ SweepIdle

\* The stop test as it would be if any scrolled distance were enough.
scrollDoneAfterFirstTick(totalHeight, scrollHeight) == totalHeight > 0

\* Line 99.
scrollDone(totalHeight, scrollHeight) == totalHeight >= scrollHeight

\* Lines 94-103: one tick of the timer.
ScrollTick ==
  /\ scroll.at = "ticking"
  /\ LET scrollHeight == scroll.pageHeight
         totalHeight == scroll.totalHeight + distance
     IN scroll' = [scroll EXCEPT !.scrollHeight = scrollHeight,
                                 !.totalHeight = totalHeight,
                                 !.at = IF scrollDone(totalHeight, scrollHeight)
                                          THEN "resolved" ELSE "ticking"]
  /\ UNCHANGED <<sheet, today, syncRuns, lastRun, pipelineOnly, writers, extraction>>
  /\ UNCHANGED sweepVars

\* The page loads more cards and its scrollHeight grows.
PageGrows ==
  /\ scroll.at \in {"ticking", "resolved"}
  /\ scroll.growths < MaxGrowths
  /\ \E g \in GrowthSteps :
       scroll' = [scroll EXCEPT !.pageHeight = @ + g, !.growths = @ + 1]
  /\ UNCHANGED <<sheet, today, syncRuns, lastRun, pipelineOnly, writers, extraction>>
  /\ UNCHANGED sweepVars

NextScroll == ScrollTick \/ PageGrows

SpecScroll == InitScroll /\ [][NextScroll]_vars

\* setInterval fires the callback again and again until clearInterval.
SpecScrollFair == SpecScroll /\ WF_vars(ScrollTick)

(***************************************************************************)
(* The command-line variant (index.js): one run of main per invocation,    *)
(* all invocations against the sheet named on the command line.            *)
(***************************************************************************)
appendMode == TRUE

expectedHeaders ==
  << "Address", "Listing ID", "Price", "Beds", "Baths", "Sq Ft", "Price per Sq Ft",
     "Listing Status", "Is Open House?", "Open House Info", "Image URL", "Link",
     "Date Added" >>

\* A row as values.get returns it: trailing empty cells are left out.
RECURSIVE TrimTrailing(_)
TrimTrailing(row) ==
  IF row # <<>> /\ row[Len(row)] = Str("")
    THEN TrimTrailing(SubSeq(row, 1, Len(row) - 1))
    ELSE row

\* probeOk = FALSE: the A1:M1 read throws and the catch returns false.
checkSpreadsheetStructure(sh, probeOk) ==
  IF ~probeOk THEN FALSE
  ELSE IF Len(sh) = 0 \/ TrimTrailing(sh[1]) = <<>> THEN FALSE
  ELSE Len(TrimTrailing(sh[1])) >= Len(expectedHeaders)

\* The first listing of each id, in batch order (the Map of updateSpreadsheet).
RECURSIVE FirstOfEachId(_, _)
FirstOfEachId(data, seen) ==
  IF data = <<>> THEN <<>>
  ELSE LET l == Head(data)
       IN IF Truthy(l.listingId) /\ l.listingId \notin seen
            THEN <<l>> \o FirstOfEachId(Tail(data), seen \cup {l.listingId})
            ELSE FirstOfEachId(Tail(data), seen)

\* updateSpreadsheet: clear the sheet, write the header row and the batch,
\* format.  A request that fails throws and leaves what the earlier ones did.
updateSpreadsheet(sh, data, date, env) ==
  LET rows == MapRows(FirstOfEachId(data, {}), date)
      allData == <<headers>> \o rows
  IN IF ~env.clearOk THEN [sheet |-> sh, threw |-> TRUE]
     ELSE IF ~env.updateOk THEN [sheet |-> <<>>, threw |-> TRUE]
     ELSE [sheet |-> allData, threw |-> ~env.formatOk]

CliEnvs == [probeOk : BOOLEAN, getOk : BOOLEAN, idsOk : BOOLEAN, appendOk : BOOLEAN,
            formatOk : BOOLEAN, clearOk : BOOLEAN, updateOk : BOOLEAN]

\* How scrapeRedfinWithRetry ends for main: with the terminal error, or with
\* the listings of an attempt.
CliScrapes ==
  {[kind |-> "raised", listings |-> <<>>]}
    \cup {[kind |-> "returned", listings |-> l] : l \in ExtractorOutputs}

\* sendToGoogleSheets of index.js, lines 259-309.
cliSendToGoogleSheets(sh, listings, date, env) ==
  LET hasStructure == checkSpreadsheetStructure(sh, env.probeOk)
  IN IF appendMode /\ hasStructure
       THEN LET r == appendToSpreadsheet(sh, listings, date, env)
            IN [sheet |-> r.sheet, threw |-> r.threw, newCount |-> r.newCount,
                path |-> "append"]
       ELSE LET r == updateSpreadsheet(sh, listings, date, env)
            IN [sheet |-> r.sheet, threw |-> r.threw, newCount |-> 0,
                path |-> "overwrite"]

InitCli ==
  /\ sheet \in InitialSheets
  /\ today \in Dates
  /\ syncRuns = 0
  /\ lastRun = NoRun
  /\ pipelineOnly = TRUE
  /\ writers = NoWriters
  /\ extraction = NoExtraction
  /\ scroll = NoScroll
  /\ store \in [JobIds -> {r \in JobRows : ~r.active}]
  /\ store0 = store
  /\ SweepIdle

\* The test as it would be if an empty result were treated as any other.
NoListingsNever(listings) == FALSE

\* scraper.js line 283, index.js line 315: listings.length === 0.
NoListings(listings) == Len(listings) = 0

\* One invocation of the command line: main, lines 312-324.
CliMain ==
  /\ syncRuns < MaxRuns
  /\ \E scraped \in CliScrapes, env \in CliEnvs :
       IF scraped.kind = "raised" \/ NoListings(scraped.listings)
         THEN /\ sheet' = sheet
              /\ lastRun' = [NoRun EXCEPT !.made = TRUE, !.threw = (scraped.kind = "raised"),
                                           !.scraped = scraped.kind]
         ELSE LET r == cliSendToGoogleSheets(sheet, scraped.listings, today, env)
              IN /\ sheet' = r.sheet
                 /\ lastRun' = [made |-> TRUE, data |-> scraped.listings,
                                 idsOk |-> env.idsOk,
                                 othersOk |-> (env.probeOk /\ env.getOk /\ env.appendOk
                                                 /\ env.formatOk /\ env.clearOk
                                                 /\ env.updateOk),
                                 threw |-> r.threw, newCount |-> r.newCount,
                                 path |-> r.path, scraped |-> scraped.kind]
  /\ syncRuns' = syncRuns + 1
  /\ UNCHANGED <<today, pipelineOnly, writers, extraction, scroll>>
  /\ UNCHANGED sweepVars

NextCli == CliMain

SpecCli == InitCli /\ [][NextCli]_vars

(***************************************************************************)
(* sendToGoogleSheets and runScraper (job pipeline, lib/scraper.js).  The  *)
(* job's sheet_url carries the id of the destination.                      *)
(***************************************************************************)
\* The outcomes of the requests one sendToGoogleSheets call makes.  A request
\* that throws ends the call, so at most one of them is the one that throws;
\* the dedup read is the exception, its failure is caught.
SheetEnvs ==
  {env \in [authOk : BOOLEAN, createOk : BOOLEAN, getOk : BOOLEAN, idsOk : BOOLEAN,
            appendOk : BOOLEAN, formatOk : BOOLEAN] :
     Cardinality({f \in {"authOk", "createOk", "getOk", "appendOk", "formatOk"} : ~env[f]}) <= 1}

\* The sheet_url of a job: a spreadsheet link, or a link without the
\* /spreadsheets/d/<id> segment.
SheetUrls == {SheetLink, NoSheetLink}

\* [a-zA-Z0-9-_]
IdChar ==
  {"a", "b", "c", "d", "e", "f", "g", "h", "i", "j", "k", "l", "m", 
   "n", "o", "p", "q", "r", "s", "t", "u", "v", "w", "x", "y", "z", 
   "A", "B", "C", "D", "E", "F", "G", "H", "I", "J", "K", "L", "M", 
   "N", "O", "P", "Q", "R", "S", "T", "U", "V", "W", "X", "Y", "Z", 
   "0", "1", "2", "3", "4", "5", "6", "7", "8", "9", "-", "_"}

\* /spreadsheets\/d\/([a-zA-Z0-9-_]+)/ up to the first character of the group
SheetIdPattern ==
  [i \in 1..Len(Chars("spreadsheets/d/")) |-> {Chars("spreadsheets/d/")[i]}] \o <<IdChar>>

\* The longest prefix of chars made of id characters (the + of the group).
RECURSIVE LeadingIdChars(_)
LeadingIdChars(chars) ==
  IF chars = <<>> \/ Head(chars) \notin IdChar THEN <<>>
  ELSE <<Head(chars)>> \o LeadingIdChars(Tail(chars))

\* sheetUrl.match(/spreadsheets\/d\/([a-zA-Z0-9-_]+)/): the id, or null.
getSheetIdFromUrl(sheetUrl) ==
  LET chars == Chars(sheetUrl)
      at == MatchesAt(chars, SheetIdPattern)
  IN IF at = {} THEN Null
     ELSE Str(Join(LeadingIdChars(SubSeq(chars, Min(at) + Len(SheetIdPattern) - 1,
                                         Len(chars)))))

\* The spreadsheet ids a call works with: the one spreadsheets.create
\* returns, and the title it is created with.
CreatedId == Str("created")
spreadsheetTitle == Str("Redfin Property Listings")

\* A request to the Sheets API: what it is and the spreadsheet it names.
Request(op, id) == [op |-> op, spreadsheetId |-> id, title |-> Null]
CreateRequest(title) == [op |-> "create", spreadsheetId |-> Null, title |-> title]

\* The requests of an appendToSpreadsheet(spreadsheetId, data) call.
RequestsOn(id, ops) == [i \in 1..Len(ops) |-> Request(ops[i], id)]

SheetsError(env, needCreate) ==
  IF ~env.authOk THEN <<"No Google credentials found">>
  ELSE IF needCreate /\ ~env.createOk THEN <<"Insufficient permission to create">>
  ELSE IF ~env.getOk THEN <<"Unable to parse range: Sheet1!A:H">>
  ELSE IF ~env.appendOk THEN <<"The caller does not have permission">>
  ELSE <<"Invalid requests[0].repeatCell">>

\* sendToGoogleSheets as it would be if a failed formatting update were
\* swallowed.
sendToGoogleSheetsSwallowsFormatting(listings, sheetUrl, sh, date, env) ==
  LET spreadsheetId == getSheetIdFromUrl(sheetUrl)
      needCreate == ~Truthy(spreadsheetId)
  IN IF ~env.authOk \/ (needCreate /\ ~env.createOk)
       THEN [threw |-> TRUE, message |-> SheetsError(env, needCreate), sheet |-> sh,
             newCount |-> 0,
             requests |-> IF env.authOk /\ needCreate
                            THEN <<CreateRequest(spreadsheetTitle)>> ELSE <<>>,
             madeNew |-> FALSE]
       ELSE LET r == appendToSpreadsheet(IF needCreate THEN <<>> ELSE sh, listings, date, env)
                threw == r.threw /\ env.formatOk
            IN [threw |-> threw,
                message |-> IF threw THEN SheetsError(env, needCreate) ELSE <<>>,
                sheet |-> r.sheet,
                newCount |-> r.newCount,
                requests |-> (IF needCreate THEN <<CreateRequest(spreadsheetTitle)>> ELSE <<>>)
                               \o RequestsOn(IF needCreate THEN CreatedId ELSE spreadsheetId,
                                             r.requests),
                madeNew |-> needCreate]

\* sendToGoogleSheets as it would be if it created a spreadsheet for every
\* call.
sendToGoogleSheetsCreatesAlways(listings, sheetUrl, sh, date, env) ==
  LET spreadsheetId == getSheetIdFromUrl(sheetUrl)
      needCreate == TRUE
      created == IF needCreate THEN <<CreateRequest(spreadsheetTitle)>> ELSE <<>>
      target == IF needCreate THEN CreatedId ELSE spreadsheetId
  IN IF ~env.authOk \/ (needCreate /\ ~env.createOk)
       THEN [threw |-> TRUE, message |-> SheetsError(env, needCreate), sheet |-> sh,
             newCount |-> 0, requests |-> IF env.authOk THEN created ELSE <<>>,
             madeNew |-> FALSE]
       ELSE LET r == appendToSpreadsheet(IF needCreate THEN <<>> ELSE sh, listings, date, env)
            IN [threw |-> r.threw,
                message |-> IF r.threw THEN SheetsError(env, needCreate) ELSE <<>>,
                sheet |-> r.sheet,
                newCount |-> r.newCount,
                requests |-> created \o RequestsOn(target, r.requests),
                madeNew |-> needCreate]

\* sh is the spreadsheet the link names; without an id in the link a new,
\* blank spreadsheet is created and takes its place.  requests are the
\* requests of the call in the order it sent them; madeNew tells whether a
\* spreadsheet came into being.
sendToGoogleSheets(listings, sheetUrl, sh, date, env) ==
  LET spreadsheetId == getSheetIdFromUrl(sheetUrl)
      needCreate == ~Truthy(spreadsheetId)
      created == IF needCreate THEN <<CreateRequest(spreadsheetTitle)>> ELSE <<>>
      target == IF needCreate THEN CreatedId ELSE spreadsheetId
  IN IF ~env.authOk \/ (needCreate /\ ~env.createOk)
       THEN [threw |-> TRUE, message |-> SheetsError(env, needCreate), sheet |-> sh,
             newCount |-> 0, requests |-> IF env.authOk THEN created ELSE <<>>,
             madeNew |-> FALSE]
       ELSE LET r == appendToSpreadsheet(IF needCreate THEN <<>> ELSE sh, listings, date, env)
            IN [threw |-> r.threw,
                message |-> IF r.threw THEN SheetsError(env, needCreate) ELSE <<>>,
                sheet |-> r.sheet,
                newCount |-> r.newCount,
                requests |-> created \o RequestsOn(target, r.requests),
                madeNew |-> needCreate]

\* The three ways runScraper returns.
ResultNoListings ==
  [returned |-> TRUE, success |-> FALSE, message |-> <<"No listings found on page">>,
   count |-> 0]
\* The result of the catch block as it would be if it reported success.
ResultCaughtReportsSuccess(message) ==
  [returned |-> TRUE, success |-> TRUE, message |-> <<"Scraping failed: ">> \o message,
   count |-> 0]

ResultCaught(message) ==
  [returned |-> TRUE, success |-> FALSE, message |-> <<"Scraping failed: ">> \o message,
   count |-> 0]
ResultSuccess(newCount) ==
  [returned |-> TRUE, success |-> TRUE, message |-> <<"Scraping completed successfully">>,
   count |-> newCount]

\* The terminal message without the cause.
TerminalMessageNoReason(lastErrorMessage) ==
  <<"Scraping failed after ", ToString(maxRetries), " attempts">>

\* The message of the terminal error scrapeRedfinWithRetry throws.
TerminalMessage(lastErrorMessage) ==
  <<"Scraping failed after ", ToString(maxRetries), " attempts: ">> \o lastErrorMessage

(***************************************************************************)
(* The job processor sweep.                                                *)
(***************************************************************************)
InitSweep ==
  /\ sheet = <<>>
  /\ today = FirstDate
  /\ syncRuns = 0
  /\ lastRun = NoRun
  /\ pipelineOnly = TRUE
  /\ writers = NoWriters
  /\ extraction = NoExtraction
  /\ scroll = NoScroll
  /\ store \in JobTables
  /\ store0 = store
  /\ SweepIdle

job == jobs[idx]

retryVars == <<attempt, lastError, delays, attempts, lastAttempt, openSessions, scrape>>
mailVars == <<emailService, transporter, outbox, lastMail>>

\* Lines 111-140: select the active jobs; construct the email service when
\* one of them has a user_email.
SelectJobs ==
  /\ pc = "select"
  /\ \E o \in {"ok", "error"} :
       IF o = "error"
         THEN /\ pc' = "exit1"
              /\ UNCHANGED <<jobs, idx, emailService>>
         ELSE /\ jobs' = ActiveJobs(store)
              /\ idx' = 1
              /\ pc' = IF Len(jobs') = 0 THEN "done" ELSE "job"
              /\ emailService' = (\E i \in 1..Len(jobs') : Truthy(store[jobs'[i]].user_email))
  /\ UNCHANGED <<sheet, today, syncRuns, lastRun, pipelineOnly, writers, extraction, scroll, store, store0, now,
                 startTime, result, caught, writes, fate, transporter, outbox, lastMail>>
  /\ UNCHANGED retryVars

\* Lines 142-144: the head of one loop iteration.  Every job has a
\* destination of its own; sheet is the one its sheet_url points at, as this
\* run finds it, and blank when the link names no spreadsheet.
StartJob ==
  /\ pc = "job"
  /\ idx <= Len(jobs)
  /\ startTime' = now
  /\ sheet' \in (IF Truthy(getSheetIdFromUrl(store0[job].sheet_url)) THEN JobSheets ELSE {<<>>})
  /\ pc' = "setRunning"
  /\ UNCHANGED <<today, syncRuns, lastRun, pipelineOnly, writers, extraction, scroll, store, store0, now,
                 jobs, idx, result, caught, writes, fate>>
  /\ UNCHANGED retryVars
  /\ UNCHANGED mailVars

\* Line 230: the loop is over.
FinishSweep ==
  /\ pc = "job"
  /\ idx > Len(jobs)
  /\ pc' = "done"
  /\ UNCHANGED <<sheet, today, syncRuns, lastRun, pipelineOnly, writers, extraction, scroll, store, store0, now,
                 jobs, idx, startTime, result, caught, writes, fate>>
  /\ UNCHANGED retryVars
  /\ UNCHANGED mailVars

StoreErrorMessage == <<"fetch failed">>

\* The effect of one awaited update on the table and on the write log.
SendUpdate(payload, o) ==
  /\ store' = IF o = "ok" THEN [store EXCEPT ![job] = ApplyUpdate(@, payload)] ELSE store
  /\ writes' = Append(writes, [payload |-> payload, outcome |-> o])

\* Line 157: the payload of the running update.
RunningPayload == [job_status |-> "running"]

\* The iteration as it would be without the running update.
SetRunningSkipped(outcomes) ==
  /\ pc = "setRunning"
  /\ pc' = "attempt"
  /\ attempt' = 1
  /\ UNCHANGED <<sheet, today, syncRuns, lastRun, pipelineOnly, writers, extraction, scroll, store, store0, now, jobs, idx,
                 startTime, lastError, delays, attempts, lastAttempt, openSessions,
                 scrape, result, caught, writes, fate>>
  /\ UNCHANGED mailVars

\* Lines 154-158.
SetRunning(outcomes) ==
  /\ pc = "setRunning"
  /\ \E o \in outcomes :
       /\ SendUpdate(RunningPayload, o)
       /\ IF o = "throw"
            THEN /\ pc' = "setFailed"
                 /\ caught' = StoreErrorMessage
                 /\ UNCHANGED attempt
            ELSE /\ pc' = "attempt"
                 /\ attempt' = 1
                 /\ UNCHANGED caught
  /\ UNCHANGED <<sheet, today, syncRuns, lastRun, pipelineOnly, writers, extraction, scroll, store0, now, jobs, idx,
                 startTime, lastError, delays, attempts, lastAttempt, openSessions, scrape,
                 result, fate>>
  /\ UNCHANGED mailVars

\* The job processor as it would be if it notified without persisting the
\* terminal status first.
AfterRunScraperNotifyFirst(r) ==
  /\ result' = r
  /\ IF r.success
       THEN pc' = "notifySuccess" /\ UNCHANGED caught
       ELSE pc' = "notifyError" /\ caught' = r.message

\* Where the job processor goes with the result runScraper returned (lines
\* 163 and 203-206).
AfterRunScraper(r) ==
  /\ result' = r
  /\ IF r.success
       THEN pc' = "setSuccess" /\ UNCHANGED caught
       ELSE pc' = "setFailed" /\ caught' = r.message

\* The retry decision as it would be without a ceiling.
RetriesLeftAlways(n) == TRUE

\* The retry decision with the ceiling off by one.
RetriesLeftOffByOne(n) == n + 1 < maxRetries

\* Line 39: a failed attempt is followed by the delay and another attempt.
RetriesLeft(n) == n < maxRetries

\* One iteration of the retry loop: a scrapeRedfin call and the catch of
\* scrapeRedfinWithRetry, then (when the loop ends here) runScraper's handling
\* of what came back.
AttemptOn(outcomes) ==
  /\ pc = "attempt"
  /\ \E outcome \in outcomes :
       LET a == scrapeRedfin(outcome)
       IN /\ attempts' = attempts + 1
          /\ lastAttempt' = [failsAt |-> outcome.failsAt, message |-> a.message,
                              found |-> Len(a.listings), flagged |-> a.flagged]
          /\ openSessions' = openSessions + (IF a.opened /\ ~a.closed THEN 1 ELSE 0)
          /\ IF ~a.threw
               THEN /\ scrape' = [kind |-> "returned", listings |-> a.listings,
                                  message |-> <<>>]
                    /\ UNCHANGED <<lastError, fate>>
                    /\ IF NoListings(a.listings)
                         THEN AfterRunScraper(ResultNoListings)
                         ELSE pc' = "sync" /\ UNCHANGED <<result, caught>>
             ELSE IF RetriesLeft(attempt)
               THEN /\ lastError' = a.message
                    /\ pc' = "delay"
                    /\ UNCHANGED <<scrape, result, caught, fate>>
             ELSE /\ lastError' = a.message
                  /\ scrape' = [kind |-> "raised", listings |-> <<>>,
                                message |-> TerminalMessage(a.message)]
                  /\ fate' = [fate EXCEPT ![job].scrapeRaised = TRUE]
                  /\ AfterRunScraper(ResultCaught(TerminalMessage(a.message)))
  /\ UNCHANGED <<sheet, today, syncRuns, lastRun, pipelineOnly, writers, extraction, scroll, store, store0, now, jobs,
                 idx, startTime, attempt, delays, writes>>
  /\ UNCHANGED mailVars

Attempt == AttemptOn(AttemptOutcomes)

\* Line 43: the 5 s wait before the next attempt.
Delay ==
  /\ pc = "delay"
  /\ now' = now + RetryDelayMs
  /\ delays' = delays + 1
  /\ attempt' = attempt + 1
  /\ pc' = "attempt"
  /\ UNCHANGED <<sheet, today, syncRuns, lastRun, pipelineOnly, writers, extraction, scroll, store, store0, jobs, idx,
                 startTime, lastError, attempts, lastAttempt, openSessions, scrape,
                 result, caught, writes, fate>>
  /\ UNCHANGED mailVars

\* Lines 295-303 of runScraper, called at line 161 with the job's sheet_url:
\* sendToGoogleSheets and the result built from it.
Sync ==
  /\ pc = "sync"
  /\ \E env \in SheetEnvs :
       LET sheet_url == store0[job].sheet_url
           r == sendToGoogleSheets(scrape.listings, sheet_url, sheet, today, env)
       IN /\ sheet' = r.sheet
          /\ IF r.threw
               THEN AfterRunScraper(ResultCaught(r.message))
               ELSE AfterRunScraper(ResultSuccess(r.newCount))
  /\ UNCHANGED <<today, syncRuns, lastRun, pipelineOnly, writers, extraction, scroll, store, store0, now, jobs, idx,
                 startTime, writes, fate>>
  /\ UNCHANGED retryVars
  /\ UNCHANGED mailVars

\* The payload with both times taken at the start of the run.
SuccessPayloadAtStart(start, timeNow) ==
  [job_status |-> "success", last_run |-> start, next_run |-> start + RescheduleMs]

\* The payload with the next run counted from the end of the run.
SuccessPayloadFromNow(start, timeNow) ==
  [job_status |-> "success", last_run |-> timeNow, next_run |-> timeNow + RescheduleMs]

\* Lines 164-176: timeNow, nextRunTime and the payload of the update.
SuccessPayload(start, timeNow) ==
  LET nextRunTime == start + RescheduleMs
  IN [job_status |-> "success", last_run |-> timeNow, next_run |-> nextRunTime]

\* Lines 164-177.
SetSuccess(outcomes) ==
  /\ pc = "setSuccess"
  /\ \E o \in outcomes :
       LET timeNow == now
       IN /\ SendUpdate(SuccessPayload(startTime, timeNow), o)
          /\ IF o = "throw"
               THEN pc' = "setFailed" /\ caught' = StoreErrorMessage
               ELSE pc' = "notifySuccess" /\ UNCHANGED caught
  /\ UNCHANGED <<sheet, today, syncRuns, lastRun, pipelineOnly, writers, extraction, scroll, store0, now, jobs, idx,
                 startTime, result, fate>>
  /\ UNCHANGED retryVars
  /\ UNCHANGED mailVars

\* The failure payload as it would be if it reset the schedule.
FailedPayloadClearsRun == [job_status |-> "failed", last_run |-> NoTime, next_run |-> NoTime]

\* The failure payload as it would be if a failed job went back to idle.
FailedPayloadBackToIdle == [job_status |-> "idle"]

\* The failure payload as it would be if the catch block left the status as
\* the running update set it.
FailedPayloadStillRunning == [job_status |-> "running"]

\* Line 208: the payload of the catch block's update.
FailedPayload == [job_status |-> "failed"]

\* Lines 206-209: the catch block's update.  When the awaited update rejects
\* inside the catch block nothing handles it and the process ends.
SetFailed(outcomes) ==
  /\ pc = "setFailed"
  /\ \E o \in outcomes :
       /\ SendUpdate(FailedPayload, o)
       /\ pc' = IF o = "throw" THEN "aborted" ELSE "notifyError"
  /\ UNCHANGED <<sheet, today, syncRuns, lastRun, pipelineOnly, writers, extraction, scroll, store0, now, jobs, idx,
                 startTime, result, caught, fate>>
  /\ UNCHANGED retryVars
  /\ UNCHANGED mailVars

\* EmailService.initialize and transporter.sendMail as one send* call sees
\* them: the credentials are missing (initialize throws before a transporter
\* exists), verify rejects (the transporter exists already), or initialize
\* passes; sendMail resolves or rejects.
MailEnvs == [init : {"ok", "noCredentials", "verifyFails"}, sendOk : BOOLEAN]

\* How a send* call ends: it initializes when no transporter is set, then
\* calls sendMail; whatever throws is logged and rethrown to the caller.
SendOutcome(hasTransporter, env) ==
  IF ~hasTransporter /\ env.init # "ok" THEN "initFailed"
  ELSE IF env.sendOk THEN "sent"
  ELSE "sendFailed"

\* A send* call of the email service (sendNewListingsNotification,
\* sendErrorNotification) with the caller's catch around it.
SendMail(mail, env) ==
  LET outcome == SendOutcome(transporter, env)
  IN /\ transporter' = (transporter \/ env.init # "noCredentials")
     /\ outbox' = IF outcome = "sent"
                    THEN Append(outbox, [to |-> mail.to, kind |-> mail.kind, job |-> mail.job])
                    ELSE outbox
     /\ lastMail' = [mail EXCEPT !.outcome = outcome]

\* The caller as it would be without its try/catch around the send* call.
NotifyContinuationUncaught(outcome) ==
  IF outcome = "sent" THEN "endIteration" ELSE "aborted"

\* Lines 186-197 and 213-223: the caller catches what a send* call throws and
\* logs it; the iteration goes on to its end either way.
NotifyContinuation(outcome) == "endIteration"

\* The summary condition with the count test off by one.
SummaryDueAboveOne(count, user_email, service) ==
  count > 1 /\ Truthy(user_email) /\ service

\* The summary condition without the count test.
SummaryDueAnyCount(count, user_email, service) ==
  Truthy(user_email) /\ service

\* Line 185: result.count > 0 && user_email && emailService.
SummaryDue(count, user_email, service) ==
  count > 0 /\ Truthy(user_email) /\ service

\* Lines 184-202: the summary notification.
NotifySuccess ==
  /\ pc = "notifySuccess"
  /\ LET user_email == store0[job].user_email
     IN IF SummaryDue(result.count, user_email, emailService)
          THEN \E env \in MailEnvs :
                 /\ SendMail([to |-> user_email, kind |-> "summary", job |-> job,
                           count |-> result.count, message |-> <<>>,
                           outcome |-> "none"], env)
                 /\ pc' = NotifyContinuation(SendOutcome(transporter, env))
          ELSE /\ UNCHANGED <<transporter, outbox, lastMail>>
               /\ pc' = "endIteration"
  /\ fate' = [fate EXCEPT ![job].ended = "success"]
  /\ UNCHANGED <<sheet, today, syncRuns, lastRun, pipelineOnly, writers, extraction, scroll, store, store0, now, jobs,
                 idx, startTime, result, caught, writes, emailService>>
  /\ UNCHANGED retryVars

\* The error mail as it would be with a fixed text for the reason.
ErrorMailGeneric(message) == <<"Job failed">>

\* Line 217: error.message is handed over as errorMessage.
ErrorMailMessage(message) == message

\* Line 212: user_email && emailService.
ErrorDue(user_email, service) == Truthy(user_email) /\ service

\* Lines 211-224: the error notification.
NotifyError ==
  /\ pc = "notifyError"
  /\ LET user_email == store0[job].user_email
     IN IF ErrorDue(user_email, emailService)
          THEN \E env \in MailEnvs :
                 /\ SendMail([to |-> user_email, kind |-> "error", job |-> job,
                           count |-> 0, message |-> ErrorMailMessage(caught),
                           outcome |-> "none"], env)
                 /\ pc' = NotifyContinuation(SendOutcome(transporter, env))
          ELSE /\ UNCHANGED <<transporter, outbox, lastMail>>
               /\ pc' = "endIteration"
  /\ fate' = [fate EXCEPT ![job].ended = "failed"]
  /\ UNCHANGED <<sheet, today, syncRuns, lastRun, pipelineOnly, writers, extraction, scroll, store, store0, now, jobs,
                 idx, startTime, result, caught, writes, emailService>>
  /\ UNCHANGED retryVars

\* Line 227: the iteration ends; its locals and those of the calls it made
\* are gone.
NextJob ==
  /\ pc = "endIteration"
  /\ idx' = idx + 1
  /\ pc' = "job"
  /\ attempt' = 0
  /\ lastError' = <<>>
  /\ delays' = 0
  /\ attempts' = 0
  /\ lastAttempt' = NoAttempt
  /\ scrape' = NoScrape
  /\ result' = NoResult
  /\ caught' = <<>>
  /\ writes' = <<>>
  /\ startTime' = NoTime
  /\ lastMail' = NoMail
  /\ sheet' = <<>>
  /\ UNCHANGED <<today, syncRuns, lastRun, pipelineOnly, writers, extraction, scroll, store, store0, now, jobs,
                 openSessions, fate, emailService, transporter, outbox>>

\* The sweep against a job store that accepts every update.
Next ==
  \/ SelectJobs
  \/ StartJob
  \/ SetRunning(StoreReliable)
  \/ Attempt
  \/ Delay
  \/ Sync
  \/ SetSuccess(StoreReliable)
  \/ SetFailed(StoreReliable)
  \/ NotifySuccess
  \/ NotifyError
  \/ NextJob
  \/ FinishSweep

Spec == InitSweep /\ [][Next]_vars

\* The sweep against a job store whose updates can fail.
NextStoreFaults ==
  \/ SelectJobs
  \/ StartJob
  \/ SetRunning(StoreOutcomes)
  \/ Attempt
  \/ Delay
  \/ Sync
  \/ SetSuccess(StoreOutcomes)
  \/ SetFailed(StoreOutcomes)
  \/ NotifySuccess
  \/ NotifyError
  \/ NextJob
  \/ FinishSweep

SpecStoreFaults == InitSweep /\ [][NextStoreFaults]_vars

\* A table with one active job, never run or run before, next to deactivated
\* ones.
OneJobTables ==
  {[j \in JobIds |-> IF j = 1 THEN JobRowKinds[k] ELSE JobRowKinds[Len(JobRowKinds)]] :
      k \in {1, 3}}

InitOneJob ==
  /\ sheet = <<>>
  /\ today = FirstDate
  /\ syncRuns = 0
  /\ lastRun = NoRun
  /\ pipelineOnly = TRUE
  /\ writers = NoWriters
  /\ extraction = NoExtraction
  /\ scroll = NoScroll
  /\ store \in OneJobTables
  /\ store0 = store
  /\ SweepIdle

\* The sweep over one job whose attempts can be served a challenge page.
NextOneJob ==
  \/ SelectJobs
  \/ StartJob
  \/ SetRunning(StoreReliable)
  \/ AttemptOn(ChallengedOutcomes)
  \/ Delay
  \/ Sync
  \/ SetSuccess(StoreReliable)
  \/ SetFailed(StoreReliable)
  \/ NotifySuccess
  \/ NotifyError
  \/ NextJob
  \/ FinishSweep

SpecOneJob == InitOneJob /\ [][NextOneJob]_vars

\* The command line is what runs: the job processor is not started.
InitMain ==
  /\ sheet \in InitialSheets
  /\ today \in Dates
  /\ syncRuns = 0
  /\ lastRun = NoRun
  /\ pipelineOnly = TRUE
  /\ writers = NoWriters
  /\ extraction = NoExtraction
  /\ scroll = NoScroll
  /\ store \in [JobIds -> {r \in JobRows : ~r.active}]
  /\ store0 = store
  /\ now = RescheduleMs
  /\ pc = "main"
  /\ jobs = <<>>
  /\ idx = 0
  /\ startTime = NoTime
  /\ attempt = 0
  /\ lastError = <<>>
  /\ delays = 0
  /\ attempts = 0
  /\ lastAttempt = NoAttempt
  /\ openSessions = 0
  /\ scrape = NoScrape
  /\ result = NoResult
  /\ caught = <<>>
  /\ writes = <<>>
  /\ fate = [j \in JobIds |-> NoFate]
  /\ emailService = FALSE
  /\ transporter = FALSE
  /\ outbox = <<>>
  /\ lastMail = NoMail

\* The two programs that run the scraper: the job processor (here over one
\* job) and the command line.  A behaviour is a run of one of them.
InitEither == InitOneJob \/ InitMain

\* index.js line 326: main().
MainRun == pc = "main" /\ CliMain

NextEither == NextOneJob \/ MainRun

SpecEither == InitEither /\ [][NextEither]_vars

(***************************************************************************)
(* C1: idempotence of the synchronizer.  When appendToSpreadsheet is run   *)
(* twice in a row with the same batch and no other writer in between, the  *)
(* second run returns newCount = 0 and leaves the rows as the first run    *)
(* left them.  (Stated for two runs that both complete and whose dedup     *)
(* reads both succeed.)                                                    *)
(***************************************************************************)
SameBatchAgain ==
  /\ lastRun.made /\ lastRun'.made
  /\ lastRun'.data = lastRun.data
  /\ ~lastRun.threw /\ ~lastRun'.threw
  /\ lastRun.idsOk /\ lastRun'.idsOk

C1_Idempotence ==
  [][SameBatchAgain => (lastRun'.newCount = 0 /\ sheet' = sheet)]_vars

(***************************************************************************)
(* C4: uniqueness across runs.  After any sequence of pipeline sync runs   *)
(* by one writer against one destination that started blank or with the    *)
(* header row, every dedup read having succeeded, no listingId occurs in   *)
(* more than one row.                                                      *)
(***************************************************************************)
C4_UniqueAcrossRuns == pipelineOnly => NoDuplicateIds(sheet)

(***************************************************************************)
(* Helpers of the sweep properties.                                        *)
(***************************************************************************)
EndsWith(seq, suffix) ==
  /\ Len(suffix) > 0
  /\ Len(seq) >= Len(suffix)
  /\ SubSeq(seq, Len(seq) - Len(suffix) + 1, Len(seq)) = suffix

InIteration == pc \in {"setRunning", "attempt", "delay", "sync", "setSuccess",
                       "setFailed", "notifySuccess", "notifyError", "endIteration"}

LastAttemptFailed == attempts > 0 /\ lastAttempt.failsAt # "none"
ZeroResultAttempt == attempts > 0 /\ lastAttempt.failsAt = "none" /\ lastAttempt.found = 0

(***************************************************************************)
(* C2: retry exhaustion.  When every attempt fails, scrapeRedfinWithRetry  *)
(* makes exactly 3 attempts, waits the fixed delay between consecutive     *)
(* attempts (2 delays of 5 s), and then raises a terminal error whose      *)
(* message contains the failure reason of the third attempt.               *)
(***************************************************************************)
C2_RetryExhaustion ==
  /\ attempts <= 3
  /\ scrape.kind = "raised" =>
       /\ attempts = 3
       /\ delays = 2
       /\ now - startTime = 2 * RetryDelayMs
       /\ LastAttemptFailed
       /\ EndsWith(scrape.message, <<StepMessage(lastAttempt.failsAt)>>)
  /\ (attempts = 3 /\ LastAttemptFailed) => scrape.kind = "raised"

W_C2_Exhausted ==
  scrape.kind = "raised" /\ lastAttempt.failsAt = "goto" /\ attempts = 3 /\ delays = 2

(***************************************************************************)
(* C3: job sweep resilience.  When the sweep over the active jobs ends,    *)
(* whatever phase of whichever job failed (status persist, scrape, sync,   *)
(* the persist of status=failed), every active job was processed and has   *)
(* a terminal status, and every job whose scrape threw has status failed.  *)
(***************************************************************************)
SweepEnded == pc \in {"done", "aborted"}

C3_SweepResilience ==
  SweepEnded =>
    \A j \in JobIds :
      store0[j].active =>
        /\ fate[j].ended # "none"
        /\ store[j].job_status \in {"success", "failed"}
        /\ (fate[j].scrapeRaised => store[j].job_status = "failed")

(***************************************************************************)
(* C5: session teardown.  Whichever step of an attempt fails, or none, the *)
(* browser the attempt launched is closed when the attempt returns or      *)
(* throws: no browser is left open between attempts.                       *)
(***************************************************************************)
C5_SessionTeardown == openSessions = 0

ScrapeOrSyncInProgress == pc \in {"attempt", "delay", "sync"}

C8_RunningBeforeScrape ==
  /\ (InIteration /\ attempts > 0) =>
       (Len(writes) >= 1 /\ writes[1].payload = [job_status |-> "running"])
  /\ ScrapeOrSyncInProgress => store[job].job_status = "running"

W_C8_SyncWhileRunning ==
  pc = "sync" /\ store[job].job_status = "running" /\ store0[job].job_status = "success"

(***************************************************************************)
(* C9: on a successful run one update sets status=success, lastRun = the   *)
(* time the run completed and nextRun = the time the run started + 30      *)
(* minutes.                                                                *)
(***************************************************************************)
C9_SuccessUpdate ==
  pc = "notifySuccess" =>
    LET runStart == now - delays * RetryDelayMs
    IN /\ store[job] = [store0[job] EXCEPT !.job_status = "success",
                                           !.last_run = now,
                                           !.next_run = runStart + 1800000]
       /\ Len(writes) = 2
       /\ writes[2].payload = [job_status |-> "success", last_run |-> now,
                               next_run |-> runStart + 1800000]

W_C9_SuccessAfterRetries == pc = "notifySuccess" /\ delays = 2 /\ result.count > 0

(***************************************************************************)
(* C10: on a failed run (scrape or sync threw, or the scraper result was   *)
(* unsuccessful) the job's status becomes failed and its lastRun and       *)
(* nextRun keep the values they had before the run.                        *)
(***************************************************************************)
C10_FailedKeepsSchedule ==
  /\ pc = "notifyError" => store[job] = [store0[job] EXCEPT !.job_status = "failed"]
  /\ \A j \in JobIds :
       fate[j].ended = "failed" =>
         /\ store[j].job_status = "failed"
         /\ store[j].last_run = store0[j].last_run
         /\ store[j].next_run = store0[j].next_run

W_C10_FailedWithPriorSchedule ==
  /\ pc = "notifyError"
  /\ store0[job].last_run = PriorRunMs /\ store[job].last_run = PriorRunMs
  /\ store[job].next_run = PriorRunMs + RescheduleMs
  /\ store[job].job_status = "failed"

(***************************************************************************)
(* C11 as stated: once a run of a job has completed, with success or with  *)
(* failure, the stored nextRun equals the stored lastRun plus 30 minutes.  *)
(***************************************************************************)
C11_NextRunIsLastRunPlusInterval ==
  \A j \in JobIds :
    fate[j].ended # "none" => store[j].next_run = store[j].last_run + RescheduleMs

(***************************************************************************)
(* C11 amended: once a run has completed with success, the stored nextRun  *)
(* is the run's start time plus 30 minutes, that is the stored lastRun     *)
(* plus 30 minutes minus the time the run took; once a run has completed   *)
(* with failure, nextRun and lastRun are the ones stored before the run    *)
(* (none for a job that never succeeded).                                  *)
(***************************************************************************)
RunDuration == delays * RetryDelayMs

C11_NextRunFromRunStart ==
  /\ (pc = "endIteration" /\ fate[job].ended = "success") =>
       /\ store[job].last_run = now
       /\ store[job].next_run = store[job].last_run + 1800000 - RunDuration
  /\ \A j \in JobIds :
       /\ fate[j].ended = "success" =>
            /\ store[j].next_run <= store[j].last_run + 1800000
            /\ store[j].next_run >= store[j].last_run + 1800000 - 2 * RetryDelayMs
       /\ fate[j].ended = "failed" =>
            /\ store[j].next_run = store0[j].next_run
            /\ store[j].last_run = store0[j].last_run

W_C11_SuccessAfterOneDelay ==
  pc = "endIteration" /\ fate[job].ended = "success" /\ delays = 1

(***************************************************************************)
(* Helpers of the notification properties.                                 *)
(***************************************************************************)
IterationOver == pc = "endIteration"
Owner == store0[job].user_email
LastSent == outbox[Len(outbox)]
SendFailed == lastMail.outcome \in {"initFailed", "sendFailed"}

C13_NoMailWithoutNewListings ==
  (IterationOver /\ fate[job].ended = "success" /\ result.count = 0) =>
    /\ lastMail = NoMail
    /\ \A i \in 1..Len(outbox) : outbox[i].job # job

W_C13_QuietSuccess ==
  /\ IterationOver /\ fate[job].ended = "success" /\ result.count = 0
  /\ Truthy(Owner) /\ emailService

(***************************************************************************)
(* C14: when a job fails and has an owner email, the error notification is *)
(* sent to that email after status=failed was persisted, and it carries    *)
(* the failure reason: the message of the failing phase's error.           *)
(***************************************************************************)
FailureReasons ==
  IF scrape.kind = "raised"
    THEN {ResultCaught(TerminalMessage(<<StepMessage(lastAttempt.failsAt)>>)).message}
  ELSE IF scrape.kind = "returned" /\ Len(scrape.listings) = 0
    THEN {<<"No listings found on page">>}
  ELSE {ResultCaught(SheetsError(env, c)).message : env \in SheetEnvs, c \in BOOLEAN}

C14_ErrorMailCarriesReason ==
  /\ (IterationOver /\ fate[job].ended = "failed" /\ Truthy(Owner)) =>
       /\ lastMail.kind = "error"
       /\ lastMail.to = Owner
       /\ lastMail.job = job
       /\ lastMail.message = result.message
       /\ lastMail.message \in FailureReasons
       /\ store[job].job_status = "failed"
       /\ lastMail.outcome = "sent" =>
            (Len(outbox) > 0 /\ LastSent = [to |-> Owner, kind |-> "error", job |-> job])
  /\ pc = "notifyError" => (lastMail = NoMail /\ store[job].job_status = "failed")
  /\ \A i \in 1..Len(outbox) :
       outbox[i].kind = "error" => store[outbox[i].job].job_status = "failed"

W_C14_SyncErrorMailed ==
  /\ IterationOver /\ lastMail.kind = "error" /\ lastMail.outcome = "sent"
  /\ scrape.kind = "returned" /\ Len(scrape.listings) > 0

(***************************************************************************)
(* C15: a notification failure is contained.  Whatever is thrown while the *)
(* email service initializes or sends is caught: the job keeps the status, *)
(* lastRun and nextRun its terminal update persisted, the iteration ends   *)
(* normally, and a sweep that ends has processed every active job.         *)
(***************************************************************************)
C15_NotificationFailureContained ==
  /\ pc # "aborted"
  /\ lastMail.outcome # "none" =>
       /\ IterationOver
       /\ Len(writes) = 2
       /\ store[job] = ApplyUpdate(ApplyUpdate(store0[job], writes[1].payload),
                                   writes[2].payload)
       /\ store[job].job_status = fate[job].ended
  /\ pc = "done" =>
       \A j \in JobIds :
         store0[j].active =>
           (fate[j].ended \in {"success", "failed"} /\ store[j].job_status = fate[j].ended)

W_C15_SummaryInitFailed ==
  /\ IterationOver /\ idx = 1 /\ Len(jobs) = 2
  /\ lastMail.kind = "summary" /\ lastMail.outcome = "initFailed"
  /\ store[job].job_status = "success" /\ store[job].last_run = now

(***************************************************************************)
(* C16: phase ordering within one job.  The running update comes before    *)
(* the first scrape attempt, the sync only runs on the listings a finished *)
(* extraction returned and before the terminal update, and a notification  *)
(* is only sent after the terminal update.                                 *)
(***************************************************************************)
PhaseOrder ==
  /\ attempts' > attempts =>
       (Len(writes) = 1 /\ writes[1].payload.job_status = "running" /\ writes' = writes)
  /\ (pc = "sync" /\ pc' # pc) =>
       /\ scrape.kind = "returned" /\ Len(scrape.listings) > 0
       /\ lastAttempt.failsAt = "none"
       /\ Len(writes) = 1
  /\ (sheet' # sheet /\ pc \notin {"job", "endIteration"}) => pc = "sync"
  /\ Len(writes') = 2 =>
       /\ writes'[1].payload.job_status = "running"
       /\ writes'[2].payload.job_status \in {"success", "failed"}
       /\ result'.returned
       /\ writes' # writes => lastMail = NoMail
  /\ (lastMail' # lastMail /\ lastMail'.kind # "none") =>
       /\ Len(writes) = 2
       /\ store[job].job_status = (IF lastMail'.kind = "summary" THEN "success" ELSE "failed")
       /\ store' = store

C16_PhaseOrder == [][PhaseOrder]_vars

W_C16_AllPhases ==
  /\ IterationOver /\ lastMail.outcome = "sent" /\ Len(writes) = 2
  /\ attempts = 2 /\ Len(sheet) = 3 /\ result.count = 2

(***************************************************************************)
(* Helpers of the synchronizer properties.                                 *)
(***************************************************************************)
SyncRan == syncRuns' = syncRuns + 1

WithId(data) == SelectSeq(data, LAMBDA l : Truthy(l.listingId))

IsPrefix(a, b) == Len(a) <= Len(b) /\ SubSeq(b, 1, Len(a)) = a

\* The listing ids the destination holds, in any data row.
IdsInDestination(sh) == {StoredIds(sh)[i] : i \in 1..Len(StoredIds(sh))}

AbsentFrom(sh, data) ==
  SelectSeq(data, LAMBDA l : Truthy(l.listingId) /\ l.listingId \notin IdsInDestination(sh))

(***************************************************************************)
(* C17: a failed dedup read does not abort the sync.  The known ids        *)
(* degrade to the empty set, so every listing of the batch that has an id  *)
(* counts as new; the destination afterwards holds either all of their     *)
(* rows, appended at the end, or none of them; when the other requests     *)
(* work the call returns normally with newCount = the size of that batch.  *)
(***************************************************************************)
DedupReadFailed == SyncRan /\ ~lastRun'.idsOk

DedupFailureDegrades ==
  DedupReadFailed =>
    LET rows == MapRows(WithId(lastRun'.data), today)
    IN /\ sheet' \in {sheet, sheet \o rows}
       /\ ~lastRun'.threw => (sheet' = sheet \o rows /\ lastRun'.newCount = Len(rows))
       /\ lastRun'.othersOk => ~lastRun'.threw

C17_DedupFailureDegrades == [][DedupFailureDegrades]_vars

W_C17_DuplicatesAfterFailedRead ==
  /\ lastRun.made /\ ~lastRun.idsOk /\ ~lastRun.threw /\ lastRun.newCount = 2
  /\ Len(sheet) >= 4 /\ sheet[1] = headers /\ ~NoDuplicateIds(sheet)

(***************************************************************************)
(* C18: synchronizer contract.  After a pipeline appendToSpreadsheet call  *)
(* that returned normally, with its dedup read working, the rows appended  *)
(* are exactly the listings of the batch whose listingId was absent from   *)
(* the destination, in batch order, and newCount is the number of rows     *)
(* appended.                                                               *)
(***************************************************************************)
SyncSucceeded ==
  SyncRan /\ ~lastRun'.threw /\ lastRun'.idsOk /\ lastRun'.data \in ExtractorOutputs

SyncContract ==
  SyncSucceeded =>
    /\ sheet' = sheet \o MapRows(AbsentFrom(sheet, lastRun'.data), today)
    /\ lastRun'.newCount = Len(sheet') - Len(sheet)

C18_SyncContract == [][SyncContract]_vars

(***************************************************************************)
(* C19: persisted rows are append-only.  After any sync run the rows the   *)
(* destination held before the run are an unchanged prefix of the rows it  *)
(* holds after the run.                                                    *)
(***************************************************************************)
C19_AppendOnly == [][SyncRan => IsPrefix(sheet, sheet')]_vars

W_C19_GrownTwice ==
  /\ syncRuns = 2 /\ lastRun.made /\ lastRun.newCount = 1 /\ ~lastRun.threw
  /\ Len(sheet) = 4 /\ sheet[1] = headers

(***************************************************************************)
(* C20: in the command-line path with appendMode on, a destination that    *)
(* has the header row and holds a stored listing that the current batch    *)
(* does not include is never put through the overwrite path (clear and     *)
(* rewrite), also when the header probe itself fails.                      *)
(***************************************************************************)
HoldsRowsOutsideBatch(sh, data) ==
  /\ Len(sh) > 1 /\ sh[1] = headers
  /\ \E i \in 2..Len(sh) :
       \A k \in 1..Len(data) : data[k].listingId # sh[i][COL_LISTING_ID + 1]

NoOverwriteOfAccumulatedRows ==
  (SyncRan /\ lastRun'.path # "none" /\ HoldsRowsOutsideBatch(sheet, lastRun'.data)) =>
    /\ lastRun'.path = "append"
    /\ IsPrefix(sheet, sheet')

C20_NoOverwriteOfAccumulatedRows == [][NoOverwriteOfAccumulatedRows]_vars

(***************************************************************************)
(* C21: the known race.  Two processes that synchronize one destination at *)
(* the same time can both read the same already-seen ids and both append   *)
(* the same new listing; the destination holds two rows for one listingId  *)
(* only if some process appended on a dedup read that another append had   *)
(* overtaken, which a single writer never does.                            *)
(***************************************************************************)
AppendedOnStaleRead == \E w \in Writers : writers[w].stale

C21_DuplicatesOnlyByRace == ~NoDuplicateIds(sheet) => AppendedOnStaleRead

(***************************************************************************)
(* C22: the sweep process exits with a non-zero code if and only if the    *)
(* read of the active jobs failed; no failure inside a job (scrape, sync,  *)
(* status persist, notification) ends the process with a non-zero code.    *)
(***************************************************************************)
\* process.exit(1) at line 119, or a rejection nothing handles, which ends
\* the process with exit code 1.
ExitedNonZero == pc \in {"exit1", "aborted"}

ReadOfJobsFailed == pc = "exit1" /\ jobs = <<>> /\ idx = 0 /\ store = store0

C22_NonZeroOnlyOnJobsRead == ExitedNonZero <=> ReadOfJobsFailed

(***************************************************************************)
(* C23: a destination sync failure escalates the whole job.  When the      *)
(* authentication, the creation of the spreadsheet, the row-count read,    *)
(* the bulk append or the formatting update throws, sendToGoogleSheets     *)
(* throws, runScraper reports failure and the job is stored as failed,     *)
(* never as success; a failure of the dedup read alone leaves the sync and *)
(* the job successful.                                                     *)
(***************************************************************************)
SyncErrors == {SheetsError(env, c) : env \in SheetEnvs, c \in BOOLEAN}

SyncThrew == result.returned /\ result.message \in {ResultCaught(m).message : m \in SyncErrors}

\* What any sync of the listings at hand would do to the destination at hand.
SyncEscalates ==
  \A sheet_url \in SheetUrls, env \in SheetEnvs :
    LET r == sendToGoogleSheets(scrape.listings, sheet_url, sheet, today, env)
        needCreate == getSheetIdFromUrl(sheet_url) = Null
    IN /\ ~env.authOk => r.threw
       /\ (needCreate /\ ~env.createOk) => r.threw
       /\ ~env.getOk => r.threw
       /\ (~env.appendOk \/ ~env.formatOk) =>
            (r.threw \/ (r.newCount = 0 /\ r.sheet = (IF needCreate THEN <<>> ELSE sheet)))
       /\ r.threw => (r.newCount = 0 /\ r.message \in SyncErrors)
       /\ (env.authOk /\ env.createOk /\ env.getOk /\ env.appendOk /\ env.formatOk) =>
            ~r.threw

C23_SyncFailureEscalates ==
  /\ pc = "sync" => SyncEscalates
  /\ SyncThrew =>
       /\ ~result.success
       /\ pc \in {"setFailed", "notifyError", "endIteration"}
       /\ pc \in {"notifyError", "endIteration"} => store[job].job_status = "failed"
       /\ \A i \in 1..Len(writes) : writes[i].payload.job_status # "success"
  /\ (pc \in {"notifySuccess", "notifyError", "endIteration"}
        /\ scrape.kind = "returned" /\ Len(scrape.listings) > 0 /\ ~SyncThrew) =>
       (result.success /\ store[job].job_status = "success")

W_C23_FormatFailureFailsJob ==
  /\ IterationOver /\ store[job].job_status = "failed"
  /\ result.message = ResultCaught(<<"Invalid requests[0].repeatCell">>).message
  /\ Len(sheet) = 3

(***************************************************************************)
(* Extractor claims (SpecExtract).                                         *)
(***************************************************************************)
Evaluated == extraction.at \in {"listings", "written"}
PageListings == [i \in 1..Len(extraction.cards) |-> extractPropertyData(extraction.cards[i])]
\* The positions of the cards that are the first of their id on the page.
FirstOfId ==
  {i \in 1..Len(PageListings) :
     /\ Truthy(PageListings[i].listingId)
     /\ \A j \in 1..(i - 1) : PageListings[j].listingId # PageListings[i].listingId}

\* C24: for any page, the extractor's output holds at most one listing per
\* listingId, the one kept is what the first card with that id yields, and
\* the kept listings are in page order.
C24_DedupWithinBatch ==
  Evaluated =>
    LET out == extraction.listings
    IN /\ \A i, j \in 1..Len(out) : i # j => out[i].listingId # out[j].listingId
       /\ Len(out) = Cardinality(FirstOfId)
       /\ \E f \in [1..Len(out) -> FirstOfId] :
            /\ \A i, j \in 1..Len(out) : i < j => f[i] < f[j]
            /\ \A i \in 1..Len(out) : out[i] = PageListings[f[i]]

\* A page showing two cards of one id with different texts, followed by a
\* card of another id, has been evaluated.
W_C24_SecondCardOfIdDropped ==
  /\ Evaluated
  /\ Len(extraction.listings) = 2
  /\ \E i, j \in 1..Len(PageListings) :
       /\ i < j
       /\ PageListings[i].listingId = PageListings[j].listingId
       /\ Truthy(PageListings[i].listingId)
       /\ PageListings[i] # PageListings[j]
       /\ extraction.listings[1] = PageListings[i]

\* The output listings paired with the cards they were extracted from.
Kept ==
  {<<extraction.cards[i], PageListings[i]>> : i \in FirstOfId}

\* C25: a card without the beds, baths or sqft element yields that field as
\* the placeholder, not 0 and not null.
C25_PlaceholderWhenAbsent ==
  Evaluated =>
    \A i \in 1..Len(extraction.cards) :
      LET card == extraction.cards[i]
          listing == PageListings[i]
      IN /\ card.beds = NoText => listing.beds = Dash
         /\ card.baths = NoText => listing.baths = Dash
         /\ card.sqft = NoText => listing.sqft = Dash
         /\ \A f \in {"beds", "baths", "sqft"} :
              card[f] = NoText => listing[f] \notin {Whole(0), Null}

\* The page's listings were extracted and one of them comes from a card
\* without any of the three elements.
W_C25_CardWithoutStats ==
  /\ Evaluated
  /\ \E k \in Kept :
       /\ k[1].beds = NoText /\ k[1].baths = NoText /\ k[1].sqft = NoText
       /\ k[2].beds = Dash /\ k[2].baths = Dash /\ k[2].sqft = Dash
       /\ \E i \in 1..Len(extraction.listings) : extraction.listings[i] = k[2]

StatFields == {"beds", "baths", "sqft"}
\* The text is there but normalizeNumber finds no number in it.
Unparsed(text) == Truthy(text) /\ normalizeNumber(text) \in {Null, NaN}
\* The zero-based column of the field in a row.
StatColumn(f) == CASE f = "beds" -> 4 [] f = "baths" -> 5 [] f = "sqft" -> 6
\* The rows appended for the page's listings, in order.
WrittenRows == SubSeq(sheet, 2, Len(sheet))

UnparsedStaysPlaceholder ==
  \A i \in 1..Len(extraction.cards), f \in StatFields :
    Unparsed(extraction.cards[i][f]) => PageListings[i][f] = Dash

ZeroDistinctFromMissingInRow ==
  extraction.at = "written" =>
    \A i \in 1..Len(WrittenRows), f \in StatFields :
      extraction.listings[i][f] = Whole(0) =>
        WrittenRows[i][StatColumn(f) + 1] # listingToRow([extraction.listings[i] EXCEPT ![f] = Dash],
                                                         today)[StatColumn(f) + 1]

\* C26: beds, baths or sqft text that is present but holds no number leaves
\* the field as the placeholder (not null, NaN or 0), and a field parsed as 0
\* is written to the destination row differently from a missing field.
C26_NumericNormalization ==
  Evaluated => (UnparsedStaysPlaceholder /\ ZeroDistinctFromMissingInRow)

KnownNumeric(v) == v[1] = "num"
Infinity == <<"infinity">>
\* v is the integer nearest to a / b (ties upwards), Infinity when b is 0.
IsRounded(v, a, b) ==
  IF b[2] = 0 THEN v = Infinity
  ELSE /\ KnownNumeric(v) /\ v[3] = 1
       /\ 2 * v[2] * b[2] - b[2] <= 2 * a[2] * b[3]
       /\ 2 * a[2] * b[3] < 2 * v[2] * b[2] + b[2]

SaysOpen(text) == Truthy(text) /\ MatchesAt(Chars(text[2]), OpenPattern) # {}
OpenHouseFieldsAgree(l) ==
  /\ (l.openHouseInfo # Null) <=> (l.isOpenHouse = Bool(TRUE))
  /\ l.isOpenHouse = Bool(TRUE) => l.listingStatus = Dash
OpenHouseClassified(text, l) ==
  SaysOpen(text) =>
    l.isOpenHouse = Bool(TRUE) /\ l.openHouseInfo = text /\ l.listingStatus = Dash

LinkOf(card) == IF card.href \notin {Null, Str("")} THEN card.href ELSE card.anchor
\* The link holds the segment /home/ followed by a digit.
HasHomeId(link) ==
  /\ link \notin {Null, Str("")}
  /\ \E i \in 1..Len(Chars(link[2])) :
       /\ i + 6 <= Len(Chars(link[2]))
       /\ SubSeq(Chars(link[2]), i, i + 5) = <<"/", "h", "o", "m", "e", "/">>
       /\ Chars(link[2])[i + 6] \in Digit

\* C29: a card without a link, or whose link has no /home/<digits> segment,
\* yields no listing of the output, and every listing of the output, and
\* every row the synchronizer writes for it, has a non-empty listingId.
C29_NoListingWithoutId ==
  Evaluated =>
    /\ \A i \in 1..Len(extraction.cards) :
         ~HasHomeId(LinkOf(extraction.cards[i])) =>
           /\ i \notin FirstOfId
           /\ \A k \in 1..Len(extraction.listings) : extraction.listings[k] # PageListings[i]
    /\ Len(extraction.listings) = Cardinality(FirstOfId)
    /\ \A k \in 1..Len(extraction.listings) :
         /\ extraction.listings[k].listingId \notin {Null, Str("")}
         /\ extraction.listings[k].listingId[1] = "str"
    /\ extraction.at = "written" =>
         \A r \in 1..Len(WrittenRows) : WrittenRows[r][COL_LISTING_ID + 1] \notin {Null, Str("")}

\* A page with a card whose link is /home/tour (no digits) between two home
\* cards has been extracted and written: two listings, two rows.
W_C29_IdlessCardLeftOut ==
  /\ extraction.at = "written"
  /\ Len(extraction.cards) = 3
  /\ extraction.cards[2].href = Str("https://www.redfin.com/home/tour")
  /\ Len(extraction.listings) = 2
  /\ Len(WrittenRows) = 2

(***************************************************************************)
(* Job status state machine (Spec).                                        *)
(***************************************************************************)
Terminal == {"success", "failed"}
\* Every change of a stored status is a step of the machine, made for the
\* job of the current iteration: prior status to running, running to a
\* terminal status.
StatusSteps ==
  \A j \in JobIds :
    store'[j].job_status # store[j].job_status =>
      /\ j = job
      /\ \/ /\ store'[j].job_status = "running"
            /\ store[j].job_status \in {"idle", "success", "failed"}
            /\ store[j] = store0[j]
         \/ /\ store[j].job_status = "running"
            /\ store'[j].job_status \in Terminal
\* At the end of an iteration the job had one running update and then one
\* terminal update.
OnceEach ==
  pc' = "endIteration" =>
    /\ Len(writes') = 2
    /\ writes'[1].payload.job_status = "running"
    /\ writes'[2].payload.job_status \in Terminal
    /\ store'[job].job_status = writes'[2].payload.job_status
\* The jobs of the iterations that are over.
Processed == {jobs[k] : k \in 1..(IF idx - 1 < Len(jobs) THEN idx - 1 ELSE Len(jobs))}

\* C30 as stated: every processed job goes prior status -> running (once) ->
\* success or failed (one of them), without running -> running, success ->
\* failed or failed -> success, and after its terminal status it is back at
\* idle with nextRun set.
C30_StatusMachineBackToIdle ==
  [][/\ StatusSteps
     /\ OnceEach
     /\ pc' = "done" =>
          \A j \in Processed' :
            store'[j].job_status = "idle" /\ store'[j].next_run # NoTime]_vars

\* C30 (amended): every processed job goes prior status -> running (once) ->
\* success or failed (one of them), without running -> running, success ->
\* failed or failed -> success; it keeps that terminal status to the end of
\* the sweep and is never set back to idle; a success sets nextRun, a
\* failure leaves nextRun as it was.
C30_StatusMachineStaysTerminal ==
  [][/\ StatusSteps
     /\ OnceEach
     /\ \A j \in Processed : store'[j] = store[j]
     /\ pc' = "done" =>
          \A j \in Processed' :
            /\ store'[j].job_status \in Terminal
            /\ store'[j].job_status = fate'[j].ended
            /\ store'[j].job_status = "success" => store'[j].next_run # NoTime
            /\ store'[j].job_status = "failed" => store'[j].next_run = store0[j].next_run]_vars

\* The sweep is over; a job found as success has failed and a job found as
\* failed has succeeded.
W_C30_BothTerminals ==
  /\ pc = "done"
  /\ \E j, k \in JobIds :
       /\ store0[j].job_status = "success" /\ store[j].job_status = "failed"
       /\ store0[k].job_status = "failed" /\ store[k].job_status = "success"
       /\ store[k].next_run # NoTime

(***************************************************************************)
(* C31: the jobs of a sweep are processed one after the other.  At every   *)
(* point at most one job is stored as running, namely the job of the       *)
(* current iteration; a job is set to running only as the first update of  *)
(* its own iteration, and by then every job before it in the list has its  *)
(* terminal status stored and its notification step behind it.             *)
(***************************************************************************)
RunningJobs == {j \in JobIds : store[j].job_status = "running"}

Earlier == {jobs[k] : k \in 1..(idx - 1)}

C31_OneJobAtATime ==
  [][/\ Cardinality(RunningJobs') <= 1
     /\ \A j \in RunningJobs' : idx' \in 1..Len(jobs') /\ j = jobs'[idx']
     /\ \A j \in RunningJobs' \ RunningJobs :
          /\ pc = "setRunning" /\ j = job /\ writes = <<>>
          /\ \A e \in Earlier :
               /\ store[e].job_status \in Terminal
               /\ fate[e].ended = store[e].job_status]_vars

\* The second job of the list is in its sync while the first one is stored
\* with the terminal status its iteration ended with.
W_C31_SecondJobRunningAfterFirstEnded ==
  /\ pc = "sync" /\ idx = 2
  /\ store[jobs[2]].job_status = "running"
  /\ store[jobs[1]].job_status = "failed"
  /\ fate[jobs[1]].ended = "failed"

(***************************************************************************)
(* C32: the sweep processes exactly the jobs stored with active = true,    *)
(* each of them once and whatever its status and nextRun are; a job with   *)
(* active = false is neither processed nor written.  An update changes     *)
(* only the row of the current job, and in it only status, lastRun and     *)
(* nextRun: its page link, sheet link, active flag and owner email stay as *)
(* they were, and no row leaves the table.                                 *)
(***************************************************************************)
Selected == {jobs[k] : k \in 1..Len(jobs)}

WrittenFields == {"job_status", "last_run", "next_run"}

C32_ActiveJobsOnceAndFrame ==
  [][/\ DOMAIN store' = JobIds
     /\ pc' \notin {"select", "exit1"} =>
          /\ Selected' = {j \in JobIds : store0[j].active}
          /\ Cardinality(Selected') = Len(jobs')
     /\ \A j \in JobIds :
          /\ ~store0[j].active => (store'[j] = store0[j] /\ fate'[j] = NoFate)
          /\ DOMAIN store'[j] = DOMAIN store0[j]
          /\ \A f \in DOMAIN store0[j] \ WrittenFields : store'[j][f] = store0[j][f]
          /\ store'[j] # store[j] => (j = job /\ store0[j].active)
     /\ (pc = "job" /\ pc' = "setRunning") => (fate[job].ended = "none" /\ job \notin Processed)
     /\ pc' = "done" =>
          \A j \in JobIds : store0[j].active => (j \in Processed' /\ fate'[j].ended \in Terminal)]_vars

\* The sweep is over: the job that was not due yet has been run, and the
\* deactivated job next to it is as it was.
W_C32_NotDueJobRunInactiveUntouched ==
  /\ pc = "done"
  /\ \E j, k \in JobIds :
       /\ store0[j].active /\ store0[j].next_run > RescheduleMs
       /\ fate[j].ended = "success" /\ store[j].last_run # store0[j].last_run
       /\ store[j].sheet_url = NoSheetLink
       /\ ~store0[k].active /\ store[k] = store0[k]

(***************************************************************************)
(* C33: the test of the page content against the challenge markers only    *)
(* logs.  An attempt whose content carries a marker goes on to scroll and  *)
(* to extract and ends exactly as it would on the same page without the    *)
(* marker: it returns the listings of the page when no step fails, and it  *)
(* throws only when a step throws; the retry loop treats it as any other   *)
(* attempt (no extra attempt, no extra delay, none skipped).               *)
(***************************************************************************)
AttemptMade == attempts' = attempts + 1

Unmarked(outcome) == [outcome EXCEPT !.content = ResultsContent]

SameButFlag(a, b) ==
  /\ a.threw = b.threw /\ a.message = b.message /\ a.listings = b.listings
  /\ a.opened = b.opened /\ a.closed = b.closed

DetectionOnlyLogs ==
  \A outcome \in ChallengedOutcomes :
    /\ SameButFlag(scrapeRedfin(outcome), scrapeRedfin(Unmarked(outcome)))
    /\ scrapeRedfin(outcome).flagged =
         (ContentRead(outcome.failsAt) /\ outcome.content \in ChallengeContents)
    /\ ~scrapeRedfin(Unmarked(outcome)).flagged

C33_DetectionIsInformational ==
  [][AttemptMade =>
       /\ DetectionOnlyLogs
       /\ lastAttempt'.flagged =>
            /\ delays' = delays /\ attempt' = attempt
            /\ lastAttempt'.failsAt = "none" =>
                 /\ scrape'.kind = "returned"
                 /\ Len(scrape'.listings) = lastAttempt'.found
                 /\ pc' = (IF lastAttempt'.found > 0 THEN "sync" ELSE "setFailed")
            /\ lastAttempt'.failsAt # "none" =>
                 /\ lastAttempt'.message = <<StepMessage(lastAttempt'.failsAt)>>
                 /\ pc' = (IF attempt < maxRetries THEN "delay" ELSE "setFailed")]_vars

\* The first attempt was served a page with a challenge marker and a card:
\* its listing has been synced and the job is stored as success.
W_C33_FlaggedAttemptSynced ==
  /\ lastAttempt.flagged /\ attempts = 1 /\ delays = 0
  /\ scrape.kind = "returned" /\ Len(scrape.listings) = 1
  /\ pc = "notifySuccess" /\ result.count = 1

(***************************************************************************)
(* C34: a sync for a sheet link without a spreadsheet id creates one       *)
(* spreadsheet, with the fixed title, as its first request, and every      *)
(* later request of the call (the reads, the append, the formatting) names *)
(* the created spreadsheet; when the creation fails nothing is read or     *)
(* written.  A sync for a link with an id creates nothing and every        *)
(* request names the id of the link.                                       *)
(***************************************************************************)
Creations(requests) == {i \in 1..Len(requests) : requests[i].op = "create"}

CreateDiscipline(sheetUrl, env, r) ==
  LET id == getSheetIdFromUrl(sheetUrl)
  IN IF Truthy(id)
       THEN /\ Creations(r.requests) = {} /\ ~r.madeNew
            /\ \A i \in 1..Len(r.requests) : r.requests[i].spreadsheetId = id
            /\ env.authOk => Len(r.requests) >= 1
       ELSE /\ ~env.authOk => (r.requests = <<>> /\ ~r.madeNew)
            /\ env.authOk =>
                 /\ Creations(r.requests) = {1}
                 /\ r.requests[1].title = spreadsheetTitle
                 /\ r.madeNew = env.createOk
                 /\ env.createOk => Len(r.requests) >= 2
                 /\ ~env.createOk => Len(r.requests) = 1
                 /\ \A i \in 2..Len(r.requests) :
                      /\ r.requests[i].op \in {"get", "ids", "append", "format"}
                      /\ r.requests[i].spreadsheetId = CreatedId

C34_CreateWhenNoId ==
  [][(pc = "sync" /\ pc' # "sync") =>
       LET sheet_url == store0[job].sheet_url
       IN /\ getSheetIdFromUrl(SheetLink) = Str("1AbC-dEf_123")
          /\ getSheetIdFromUrl(NoSheetLink) = Null
          /\ \A env \in SheetEnvs :
               CreateDiscipline(sheet_url, env,
                                sendToGoogleSheets(scrape.listings, sheet_url, sheet, today, env))
          /\ (sheet_url = NoSheetLink /\ result'.success) => Len(sheet') = result'.count
          /\ (sheet_url = SheetLink /\ result'.success) => Len(sheet') = Len(sheet) + result'.count]_vars

\* The job's link names no spreadsheet and the spreadsheet the job pointed at
\* before is not the destination: the two listings of the page are the two
\* rows of the new spreadsheet.
W_C34_RowsInCreatedSpreadsheet ==
  /\ pc = "notifySuccess" /\ store0[job].sheet_url = NoSheetLink
  /\ result.success /\ result.count = 2 /\ Len(sheet) = 2

(***************************************************************************)
(* C35 as stated: a sync with n > 0 novel listings issues one append       *)
(* carrying all n rows, and the row count its formatting requests are      *)
(* built with equals the number of rows the destination holds after the    *)
(* append, whatever the destination held before, a blank sheet included; a *)
(* sync with no novel listing issues neither an append nor a formatting    *)
(* update.                                                                 *)
(***************************************************************************)
RequestsWorked(run) == [getOk |-> TRUE, idsOk |-> run.idsOk, appendOk |-> TRUE, formatOk |-> TRUE]

C35_OneAppendThenFormatOverTotal ==
  [][(SyncRan /\ lastRun'.othersOk) =>
       LET r == appendToSpreadsheet(sheet, lastRun'.data, today, RequestsWorked(lastRun'))
           ops == {r.requests[i] : i \in 1..Len(r.requests)}
       IN /\ sheet' = r.sheet
          /\ r.newCount > 0 =>
               /\ r.appendCalls = 1
               /\ Len(r.appended) = r.newCount
               /\ sheet' = sheet \o r.appended
               /\ r.requests = <<"get", "ids", "append", "format">>
               /\ r.formatRowCount = Len(sheet')
          /\ r.newCount = 0 =>
               /\ r.appendCalls = 0
               /\ "append" \notin ops /\ "format" \notin ops
               /\ sheet' = sheet]_vars

(***************************************************************************)
(* C36 as stated: listingToRow puts the listingId into the column the      *)
(* dedup read fetches (the second one, headed 'Listing ID'), so every row  *)
(* a run appends is returned by the dedup read of the next run.            *)
(***************************************************************************)
AppendedRows == SubSeq(sheet', Len(sheet) + 1, Len(sheet'))

C36_AppendedRowsSeenByNextRead ==
  [][(SyncRan /\ ~lastRun'.threw) =>
       /\ headers[COL_LISTING_ID + 1] = Str("Listing ID")
       /\ Len(AppendedRows) = lastRun'.newCount
       /\ \A i \in 1..Len(AppendedRows) :
            /\ \E k \in 1..Len(lastRun'.data) :
                 /\ AppendedRows[i] = listingToRow(lastRun'.data[k], today)
                 /\ AppendedRows[i][COL_LISTING_ID + 1] = lastRun'.data[k].listingId
            /\ AppendedRows[i][COL_LISTING_ID + 1] \in getExistingListingIds(sheet', TRUE)]_vars

(***************************************************************************)
(* C37: the auto-scroll loop terminates.  Every tick adds the fixed        *)
(* distance to the distance scrolled; the loop stops in a tick exactly     *)
(* when the distance scrolled has reached the height measured in that      *)
(* tick, never while it is below it, and no tick follows the stop; once    *)
(* the page has stopped growing the loop stops after finitely many ticks.  *)
(***************************************************************************)
Ticked == scroll'.totalHeight # scroll.totalHeight

ScrollSteps ==
  /\ Ticked =>
       /\ scroll.at = "ticking"
       /\ scroll'.totalHeight = scroll.totalHeight + distance
       /\ scroll'.scrollHeight = scroll.pageHeight
       /\ (scroll'.at = "resolved") <=> (scroll'.totalHeight >= scroll'.scrollHeight)
       /\ scroll'.at = "resolved" => scroll'.totalHeight <= scroll'.scrollHeight + distance
  /\ scroll'.at # scroll.at => (Ticked /\ scroll'.at = "resolved")
  /\ scroll'.pageHeight >= scroll.pageHeight

C37_AutoScrollTerminates ==
  /\ [][ScrollSteps]_vars
  /\ <>(scroll.at = "resolved")

\* The loop has stopped after the page grew under it: it took more ticks
\* than the first height asked for.
W_C37_StoppedAfterGrowth ==
  /\ scroll.at = "resolved" /\ scroll.growths = 2
  /\ scroll.scrollHeight = 1000 /\ scroll.totalHeight = 1000

(***************************************************************************)
(* C38: the retry loop stops at the first attempt that does not throw.     *)
(* When attempt k returns, scrapeRedfinWithRetry returns the listings of   *)
(* that attempt, k - 1 delays have been taken and no attempt or delay      *)
(* follows; when the last attempt throws, the terminal error follows with  *)
(* no delay after it; there are never more than 3 attempts.                *)
(***************************************************************************)
LoopOver == scrape.kind # "none"

C38_StopsAtFirstSuccess ==
  [][/\ attempts' <= maxRetries
     /\ scrape'.kind = "returned" =>
          /\ lastAttempt'.failsAt = "none"
          /\ Len(scrape'.listings) = lastAttempt'.found
          /\ delays' = attempts' - 1
          /\ now' - startTime' = (attempts' - 1) * RetryDelayMs
          /\ pc' \notin {"attempt", "delay"}
     /\ (AttemptMade /\ scrape'.kind = "returned") =>
          \E outcome \in ChallengedOutcomes :
            /\ outcome.failsAt = lastAttempt'.failsAt
            /\ ~scrapeRedfin(outcome).threw
            /\ scrape'.listings = scrapeRedfin(outcome).listings
     /\ scrape'.kind = "raised" =>
          /\ attempts' = maxRetries /\ delays' = maxRetries - 1
          /\ pc' \notin {"attempt", "delay"}
     /\ (LoopOver /\ pc # "endIteration") =>
          (attempts' = attempts /\ delays' = delays /\ scrape' = scrape /\ now' = now)
     /\ delays' # delays => (delays' = 0 \/ (pc = "delay" /\ lastAttempt.failsAt # "none"))]_vars

\* The second attempt returned two listings after the first one threw: one
\* delay was taken and the sync is next.
W_C38_SecondAttemptReturned ==
  /\ pc = "sync" /\ scrape.kind = "returned" /\ Len(scrape.listings) = 2
  /\ attempts = 2 /\ delays = 1 /\ now - startTime = RetryDelayMs

(***************************************************************************)
(* C39: runScraper is total.  Whatever the scrape and the sync do, the     *)
(* call returns a result whose success is a boolean and nothing reaches    *)
(* the caller as an exception; success is true only when the scrape        *)
(* returned at least one listing and the sync ended without an error, and  *)
(* then count is the newCount of that sync.                                *)
(***************************************************************************)
RunScraperEnds == pc \in {"attempt", "sync"} /\ pc' \notin {"attempt", "delay", "sync"}

SyncsWithoutError ==
  {r \in {sendToGoogleSheets(scrape.listings, store0[job].sheet_url, sheet, today, env) :
            env \in SheetEnvs} : ~r.threw}

C39_RunScraperTotal ==
  [][/\ RunScraperEnds =>
          /\ result'.returned /\ result'.success \in BOOLEAN
          /\ pc' = (IF result'.success THEN "setSuccess" ELSE "setFailed")
          /\ ~result'.success => (caught' = result'.message /\ result'.count = 0)
          /\ result'.success =>
               /\ pc = "sync" /\ scrape.kind = "returned" /\ Len(scrape.listings) >= 1
               /\ \E r \in SyncsWithoutError :
                    result'.count = r.newCount /\ sheet' = r.sheet
     /\ (pc' \in {"setSuccess", "setFailed"} /\ pc \notin {"setSuccess", "setFailed"}) =>
          RunScraperEnds
     /\ (pc \in {"attempt", "delay", "sync"} /\ ~RunScraperEnds) =>
          (pc' \in {"attempt", "delay", "sync"} /\ ~result'.returned)]_vars

\* Two listings were scraped, one of them was in the destination already:
\* runScraper returned success with count 1.
W_C39_SuccessWithSyncCount ==
  /\ pc = "setSuccess" /\ result.returned /\ result.success
  /\ Len(scrape.listings) = 2 /\ result.count = 1 /\ Len(sheet) = 3

(***************************************************************************)
(* C40: when the scrape returns no listing, nothing is done to the         *)
(* destination.  In the job pipeline runScraper returns the failure 'No    *)
(* listings found on page' without a sync, the sheet stays as it was and   *)
(* the job ends as failed; on the command line main ends without a sync    *)
(* and without exit code 1, the sheet staying as it was.                   *)
(***************************************************************************)
ReturnedNothing == scrape.kind = "returned" /\ Len(scrape.listings) = 0

MainReturnedNothing == lastRun.made /\ lastRun.scraped = "returned" /\ lastRun.data = <<>>

C40_NoListingsNoSheetOperation ==
  [][/\ (AttemptMade /\ ReturnedNothing') =>
          /\ result' = ResultNoListings
          /\ pc' = "setFailed" /\ caught' = <<"No listings found on page">>
          /\ sheet' = sheet
     /\ ReturnedNothing =>
          /\ pc \notin {"sync", "setSuccess", "notifySuccess"}
          /\ pc \in {"setFailed", "notifyError"} => sheet' = sheet
          /\ pc \in {"notifyError", "endIteration"} => store[job].job_status = "failed"
          /\ pc = "endIteration" => fate[job].ended = "failed"
     /\ (pc = "main" /\ MainReturnedNothing') =>
          /\ lastRun'.path = "none"
          /\ ~lastRun'.threw
          /\ lastRun'.newCount = 0
          /\ sheet' = sheet]_vars

\* The iteration of a job whose page showed no listing is over: the job is
\* stored as failed and its destination still holds the header row and the
\* row it held before.
W_C40_PipelineLeftSheetAlone ==
  /\ pc = "endIteration" /\ ReturnedNothing
  /\ store[job].job_status = "failed"
  /\ Len(sheet) = 2 /\ sheet[1] = headers

====
